---------------------------- MODULE Spec2Model ----------------------------
(***************************************************************************)
(* Model of the IKBD (HD6301 keyboard/mouse/joystick controller) emulation *)
(* of src/bios/v4sa_ikbd.c: the command framer and dispatcher, the command *)
(* handlers, the per-tick auto-report generator and the emulation layer    *)
(* for custom 6301 programs.                                               *)
(*                                                                         *)
(* The C code is sequential and works on file-scope globals.  Each C       *)
(* function that changes state is an operator from an engine record S (one *)
(* field per global) to the engine record after the call; an entry point   *)
(* of the engine is one action, which applies the operator to the current  *)
(* values of the variables.  The output sink acia_ikbd_rx() is the field   *)
(* out: the bytes the current entry-point call has emitted, in order.      *)
(***************************************************************************)
EXTENDS Integers, Sequences, FiniteSets, TLC

(***************************************************************************)
(* Program constants                                                       *)
(***************************************************************************)
SIZE_KEYBOARDINPUT_BUFFER == 8
AUTOMODE_OFF == 0
AUTOMODE_MOUSEREL == 1
AUTOMODE_MOUSEABS == 2
AUTOMODE_MOUSECURSOR == 3
AUTOMODE_JOYSTICK == 4
AUTOMODE_JOYSTICK_MONITORING == 5
BUTTON_NULL == 0
BUTTON_MOUSE == 1
BUTTON_JOYSTICK == 2
ATARIJOY_BITMASK_FIRE == 128
ABS_X_ONRESET == 0
ABS_Y_ONRESET == 0
ABS_MAX_X_ONRESET == 320
ABS_MAY_Y_ONRESET == 200
ABS_PREVBUTTONS == 10
IKBD_ROM_VERSION == 241
RESET_TICKS == 40

(***************************************************************************)
(* Bit arithmetic on naturals                                              *)
(***************************************************************************)
RECURSIVE BitAnd(_, _)
BitAnd(a, b) ==
    IF a = 0 \/ b = 0 THEN 0
    ELSE 2 * BitAnd(a \div 2, b \div 2) + (IF a % 2 = 1 /\ b % 2 = 1 THEN 1 ELSE 0)

RECURSIVE BitOr(_, _)
BitOr(a, b) ==
    IF a = 0 THEN b
    ELSE IF b = 0 THEN a
    ELSE 2 * BitOr(a \div 2, b \div 2) + (IF a % 2 = 1 \/ b % 2 = 1 THEN 1 ELSE 0)

RECURSIVE BitXor(_, _)
BitXor(a, b) ==
    IF a = 0 THEN b
    ELSE IF b = 0 THEN a
    ELSE 2 * BitXor(a \div 2, b \div 2) + (IF a % 2 # b % 2 THEN 1 ELSE 0)

\* a & ~b on bytes
BitClear(a, b) == BitAnd(a, 255 - BitAnd(b, 255))

\* (uint8_t) x
ToUint8(x) == x % 256

\* (int8_t) x : the low byte, read as two's complement
ToInt8(x) == LET m == x % 256 IN IF m >= 128 THEN m - 256 ELSE m

(***************************************************************************)
(* crc32_reset / crc32_add_byte.  A uint32_t is the pair <<high 16 bits,   *)
(* low 16 bits>>.                                                          *)
(***************************************************************************)
CRC32_POLY == <<1217, 7607>>          \* 0x04c11db7

crc32_reset == <<65535, 65535>>

\* A faulty variant of the loop body of crc32_add_byte: the polynomial is
\* XORed on the register's top bit alone
crc32_add_bit_topOnly(crc, c) ==
    LET top     == crc[1] >= 32768
        shifted == << ((crc[1] * 2) % 65536) + (crc[2] \div 32768), (crc[2] * 2) % 65536 >>
    IN  IF top
        THEN << BitXor(shifted[1], CRC32_POLY[1]), BitXor(shifted[2], CRC32_POLY[2]) >>
        ELSE shifted

\* one pass of the loop body of crc32_add_byte, for the message bit in
\* bit 7 of c:  ( c & 0x80 ) ^ ( *crc & 0x80000000 )
crc32_add_bit(crc, c) ==
    LET top     == crc[1] >= 32768
        msg     == c >= 128
        shifted == << ((crc[1] * 2) % 65536) + (crc[2] \div 32768), (crc[2] * 2) % 65536 >>
    IN  IF top # msg
        THEN << BitXor(shifted[1], CRC32_POLY[1]), BitXor(shifted[2], CRC32_POLY[2]) >>
        ELSE shifted

RECURSIVE crc32_loop(_, _, _)
crc32_loop(crc, c, bit) ==
    IF bit >= 8 THEN crc
    ELSE crc32_loop(crc32_add_bit(crc, c), (c * 2) % 256, bit + 1)

crc32_add_byte(crc, c) == crc32_loop(crc, c, 0)

RECURSIVE crc32_of(_, _)
crc32_of(crc, bytes) ==
    IF bytes = <<>> THEN crc
    ELSE crc32_of(crc32_add_byte(crc, Head(bytes)), Tail(bytes))

(***************************************************************************)
(* CustomCodeDefinitions[]: the registry of known custom 6301 programs.    *)
(* Handlers are named by strings; "none" is the NULL pointer.              *)
(***************************************************************************)
CustomCodeDefinitions ==
    << [LoadMemCrc |-> <<12027, 4529>>,  ExeBootHandler |-> "CommonBoot",
        MainProgNbBytes |-> 167, MainProgCrc |-> <<59153, 2925>>,
        Read |-> "FroggiesMenu_Read", Write |-> "FroggiesMenu_Write"],
       [LoadMemCrc |-> <<44470, 46339>>, ExeBootHandler |-> "CommonBoot",
        MainProgNbBytes |-> 165, MainProgCrc |-> <<22039, 49980>>,
        Read |-> "Transbeauce2Menu_Read", Write |-> "Transbeauce2Menu_Write"],
       [LoadMemCrc |-> <<13250, 15583>>, ExeBootHandler |-> "CommonBoot",
        MainProgNbBytes |-> 83,  MainProgCrc |-> <<57150, 23176>>,
        Read |-> "DragonnelsMenu_Read", Write |-> "DragonnelsMenu_Write"],
       [LoadMemCrc |-> <<39639, 64735>>, ExeBootHandler |-> "CommonBoot",
        MainProgNbBytes |-> 109, MainProgCrc |-> <<41245, 35813>>,
        Read |-> "ChaosAD_Read", Write |-> "ChaosAD_Write"],
       [LoadMemCrc |-> <<48140, 8301>>,  ExeBootHandler |-> "CommonBoot",
        MainProgNbBytes |-> 91,  MainProgCrc |-> <<4507, 9965>>,
        Read |-> "AudioSculpture_Color_Read", Write |-> "AudioSculpture_Write"],
       [LoadMemCrc |-> <<48140, 8301>>,  ExeBootHandler |-> "CommonBoot",
        MainProgNbBytes |-> 91,  MainProgCrc |-> <<25525, 62687>>,
        Read |-> "AudioSculpture_Mono_Read", Write |-> "AudioSculpture_Write"] >>

NbCustomCode == Len(CustomCodeDefinitions)

(***************************************************************************)
(* The host-visible byte tables of IKBD_Init and their memory map.         *)
(* A cell is <<table, index>>.  The tables of joypad[i] are "scancode" and *)
(* "joystick" with the controller number; v4sa_scancodes is "v4sa".        *)
(***************************************************************************)
default_scancodes ==
    << 91, 2, 3, 4, 5, 6, 7, 8, 9, 10, 11, 12, 13, 41, 0, 112,
       16, 17, 18, 19, 20, 21, 22, 23, 24, 25, 26, 27, 0, 109, 110, 111,
       30, 31, 32, 33, 34, 35, 36, 37, 38, 39, 40, 43, 0, 106, 107, 108,
       96, 44, 45, 46, 47, 48, 49, 50, 51, 52, 53, 0, 113, 103, 104, 105,
       57, 14, 15, 114, 28, 1, 83, 0, 0, 0, 74, 98, 72, 80, 77, 75,
       59, 60, 61, 62, 63, 64, 65, 66, 67, 68, 99, 100, 101, 102, 78, 98,
       42, 54, 58, 29, 56, 76, 86, 87, 0, 0, 0, 0, 0, 0, 0, 97,
       71, 82, 0, 0, 0, 0, 0, 0, 0, 0, 89, 90, 92, 93, 55, 0 >>

\* defaults[0].map and defaults[1].map of IKBD_Init, indexed from 0
joypad_default_scancode(d, j) ==
    IF d = 1 /\ j \in 4..11 THEN <<20, 21, 22, 23, 24, 25, 30, 31>>[j - 3] ELSE 0

joypad_default_joystick(d, j) ==
    CASE j = 12 -> 2
      [] j = 13 -> 8
      [] j = 14 -> 1
      [] j = 15 -> 4
      [] j = 0  -> ATARIJOY_BITMASK_FIRE
      [] d = 1 /\ j = 1 -> 1
      [] d = 1 /\ j = 2 -> ATARIJOY_BITMASK_FIRE + 1
      [] d = 1 /\ j = 3 -> ATARIJOY_BITMASK_FIRE + 2
      [] OTHER -> 0

\* The value IKBD_Init gives a cell: joypad[0] and joypad[2] are defaults[0],
\* joypad[1] and joypad[3] are defaults[1].  Bytes outside the tables are
\* taken as 0.
IKBD_Init_cell(cell) ==
    LET t == cell[1]
        j == cell[2]
    IN  CASE t[1] = "v4sa" /\ j \in 0..127    -> default_scancodes[j + 1]
          [] t[1] = "scancode" /\ j \in 0..15 -> joypad_default_scancode(t[2] % 2, j)
          [] t[1] = "joystick" /\ j \in 0..15 -> joypad_default_joystick(t[2] % 2, j)
          [] OTHER -> 0

\* mem_map[]: start, end and table of each entry, in the order of the source
mem_map ==
    << [start |-> 45056, end |-> 45072, mapaddr |-> <<"scancode", 0>>],
       [start |-> 45072, end |-> 45088, mapaddr |-> <<"joystick", 0>>],
       [start |-> 45312, end |-> 45328, mapaddr |-> <<"scancode", 1>>],
       [start |-> 45328, end |-> 45344, mapaddr |-> <<"joystick", 1>>],
       [start |-> 45568, end |-> 45584, mapaddr |-> <<"scancode", 2>>],
       [start |-> 45584, end |-> 45600, mapaddr |-> <<"joystick", 2>>],
       [start |-> 45824, end |-> 45840, mapaddr |-> <<"scancode", 3>>],
       [start |-> 45840, end |-> 45856, mapaddr |-> <<"joystick", 3>>],
       [start |-> 40960, end |-> 41088, mapaddr |-> <<"v4sa", 0>>] >>

\* resolve_address: the cell of the first entry with start <= addr <= end,
\* or <<>> for NULL
RECURSIVE resolve_from(_, _)
resolve_from(addr, i) ==
    IF i > Len(mem_map) THEN <<>>
    ELSE IF addr < mem_map[i].start THEN resolve_from(addr, i + 1)
    ELSE IF addr > mem_map[i].end THEN resolve_from(addr, i + 1)
    ELSE << mem_map[i].mapaddr, addr - mem_map[i].start >>

resolve_address(addr) == resolve_from(addr, 1)

\* The byte a cell names: map.scancode[16] is the byte of map.joystick[0]
\* of the same joypad_t (the two arrays are adjacent in the struct).
CellByte(cell) ==
    IF cell[1][1] = "scancode" /\ cell[2] = 16
    THEN << <<"joystick", cell[1][2]>>, 0 >>
    ELSE cell

(***************************************************************************)
(* State                                                                   *)
(***************************************************************************)
VARIABLES
    MouseMode, JoystickMode,        \* KeyboardProcessor.MouseMode, .JoystickMode
    Abs,                            \* KeyboardProcessor.Abs: X, Y, MaxX, MaxY, PrevReadAbsMouseButtons
    Mouse,                          \* KeyboardProcessor.Mouse
    Joy,                            \* KeyboardProcessor.Joy: JoyData, PrevJoyData (index 1 is lane 0)
    PauseOutput,                    \* Keyboard.PauseOutput
    InputBuffer,                    \* Keyboard.InputBuffer[0 .. nBytesInInputBuffer-1]
    Buttons,                        \* Keyboard.bLButtonDown, bRButtonDown, bOldLButtonDown, bOldRButtonDown
    bMouseDisabled, bJoystickDisabled,
    bDuringResetCriticalTime, bBothMouseAndJoy, bMouseEnabledDuringReset,
    ikbd_reset_counter,
    Clock,                          \* pIKBD->Clock[0..5]
    MemoryLoad,                     \* MemoryLoadNbBytesAddr, ..Total, ..Left, MemoryLoadCrc, MemoryExeNbBytes
    pIKBD_CustomCodeHandler_Read, pIKBD_CustomCodeHandler_Write, IKBD_ExeMode,
    ScanCodeState,                  \* the set of key codes whose ScanCodeState[] is 1
    mem,                            \* the bytes of the tables written since IKBD_Init
    joypad_input_state,             \* joypad[0..1].input.state
    mouseb_old,                     \* static of IKBD_SendAutoKeyboardCommands
    ChaosAD,                        \* statics FirstCall, IgnoreNb, Index, Count of the Chaos A.D. handlers
    AudioSculpture,                 \* statics ASmagic, ReadCount
    out,                            \* bytes passed to acia_ikbd_rx by the last entry-point call
    lastOp,                         \* the last entry-point call, what it dispatched, the
                                    \* write handler that was installed when it came, and
                                    \* whether the call before it dispatched the same command
    hist,                           \* since the last boot of the ROM: the ticks, the disable commands run,
                                    \* whether 0x08 ran in the critical window that is still open, and
                                    \* the buttons at the last 0x0D (<<>> before the first one, <<FALSE>>
                                    \* once a button changed or 0x07 ran after it);
                                    \* since power-on: the Load Memory commands run;
                                    \* the bytes of the last Set clock if all were packed BCD and no
                                    \* cold reset came since, and whether a tick or VBL came since
    host                            \* the program image the host is uploading

vars == << MouseMode, JoystickMode, Abs, Mouse, Joy, PauseOutput, InputBuffer, Buttons,
           bMouseDisabled, bJoystickDisabled, bDuringResetCriticalTime, bBothMouseAndJoy,
           bMouseEnabledDuringReset, ikbd_reset_counter, Clock, MemoryLoad,
           pIKBD_CustomCodeHandler_Read, pIKBD_CustomCodeHandler_Write, IKBD_ExeMode,
           ScanCodeState, mem, joypad_input_state, mouseb_old, ChaosAD, AudioSculpture,
           out, lastOp, hist, host >>

\* The engine record of the current state
Cur ==
    [ MouseMode |-> MouseMode, JoystickMode |-> JoystickMode, Abs |-> Abs, Mouse |-> Mouse,
      Joy |-> Joy, PauseOutput |-> PauseOutput, InputBuffer |-> InputBuffer,
      Buttons |-> Buttons, bMouseDisabled |-> bMouseDisabled,
      bJoystickDisabled |-> bJoystickDisabled,
      bDuringResetCriticalTime |-> bDuringResetCriticalTime,
      bBothMouseAndJoy |-> bBothMouseAndJoy,
      bMouseEnabledDuringReset |-> bMouseEnabledDuringReset,
      ikbd_reset_counter |-> ikbd_reset_counter, Clock |-> Clock, MemoryLoad |-> MemoryLoad,
      pRead |-> pIKBD_CustomCodeHandler_Read, pWrite |-> pIKBD_CustomCodeHandler_Write,
      ExeMode |-> IKBD_ExeMode, ScanCodeState |-> ScanCodeState, mem |-> mem,
      joypad_input_state |-> joypad_input_state, mouseb_old |-> mouseb_old,
      ChaosAD |-> ChaosAD, AudioSculpture |-> AudioSculpture,
      out |-> <<>>, cmd |-> -1, reads |-> 0, boot |-> FALSE ]

\* The next state is the engine record S
Becomes(S) ==
    /\ MouseMode' = S.MouseMode
    /\ JoystickMode' = S.JoystickMode
    /\ Abs' = S.Abs
    /\ Mouse' = S.Mouse
    /\ Joy' = S.Joy
    /\ PauseOutput' = S.PauseOutput
    /\ InputBuffer' = S.InputBuffer
    /\ Buttons' = S.Buttons
    /\ bMouseDisabled' = S.bMouseDisabled
    /\ bJoystickDisabled' = S.bJoystickDisabled
    /\ bDuringResetCriticalTime' = S.bDuringResetCriticalTime
    /\ bBothMouseAndJoy' = S.bBothMouseAndJoy
    /\ bMouseEnabledDuringReset' = S.bMouseEnabledDuringReset
    /\ ikbd_reset_counter' = S.ikbd_reset_counter
    /\ Clock' = S.Clock
    /\ MemoryLoad' = S.MemoryLoad
    /\ pIKBD_CustomCodeHandler_Read' = S.pRead
    /\ pIKBD_CustomCodeHandler_Write' = S.pWrite
    /\ IKBD_ExeMode' = S.ExeMode
    /\ ScanCodeState' = S.ScanCodeState
    /\ mem' = S.mem
    /\ joypad_input_state' = S.joypad_input_state
    /\ mouseb_old' = S.mouseb_old
    /\ ChaosAD' = S.ChaosAD
    /\ AudioSculpture' = S.AudioSculpture
    /\ out' = S.out

\* acia_ikbd_rx(d): the sink takes a byte
acia_ikbd_rx(S, d) == [S EXCEPT !.out = Append(@, d % 256)]

RECURSIVE acia_ikbd_rx_all(_, _)
acia_ikbd_rx_all(S, ds) ==
    IF ds = <<>> THEN S ELSE acia_ikbd_rx_all(acia_ikbd_rx(S, Head(ds)), Tail(ds))

\* *cell, for a cell resolve_address returned
ReadCell(S, cell) ==
    LET c == CellByte(cell)
    IN  IF c \in DOMAIN S.mem THEN S.mem[c] ELSE IKBD_Init_cell(c)

\* *cell = b
WriteCell(S, cell, b) ==
    LET c == CellByte(cell)
    IN  [S EXCEPT !.mem = [x \in DOMAIN S.mem \cup {c} |-> IF x = c THEN b ELSE S.mem[x]]]

(***************************************************************************)
(* IKBD_Boot_ROM                                                           *)
(***************************************************************************)
\* "Remove any custom handlers": lines 594-601
Boot_ROM_RemoveHandlers(S) ==
    IF S.MemoryLoad.Left # 0 \/ S.ExeMode
    THEN [S EXCEPT !.MemoryLoad.Left = 0, !.pRead = "none", !.pWrite = "none",
                   !.ExeMode = FALSE]
    ELSE S

IKBD_Boot_ROM(S, ClearAllRAM) ==
    Boot_ROM_RemoveHandlers(
      [S EXCEPT
        !.Clock = IF ClearAllRAM THEN <<0, 0, 0, 0, 0, 0>> ELSE @,
        !.MouseMode = AUTOMODE_MOUSEREL,
        !.JoystickMode = AUTOMODE_JOYSTICK,
        !.Abs = [X |-> ABS_X_ONRESET, Y |-> ABS_Y_ONRESET, MaxX |-> ABS_MAX_X_ONRESET,
                 MaxY |-> ABS_MAY_Y_ONRESET, PrevReadAbsMouseButtons |-> ABS_PREVBUTTONS],
        !.Mouse = [DeltaX |-> 0, DeltaY |-> 0, XScale |-> 0, YScale |-> 0,
                   XThreshold |-> 1, YThreshold |-> 1, KeyCodeDeltaX |-> 1,
                   KeyCodeDeltaY |-> 1, YAxis |-> 1, Action |-> 0],
        !.Joy.PrevJoyData = <<0, 0>>,
        !.ScanCodeState = {},
        !.InputBuffer = <<>>,
        !.PauseOutput = FALSE,
        !.Buttons = [bLButtonDown |-> BUTTON_NULL, bRButtonDown |-> BUTTON_NULL,
                     bOldLButtonDown |-> BUTTON_NULL, bOldRButtonDown |-> BUTTON_NULL],
        !.bMouseDisabled = FALSE,
        !.bJoystickDisabled = FALSE,
        !.ikbd_reset_counter = RESET_TICKS,
        !.bDuringResetCriticalTime = TRUE,
        !.bBothMouseAndJoy = FALSE,
        !.bMouseEnabledDuringReset = FALSE,
        !.boot = TRUE ])

\* The globals before the first call: zero-initialised statics, the statics
\* with an initialiser, and the tables of IKBD_Init
StaticInit ==
    [ MouseMode |-> 0, JoystickMode |-> 0,
      Abs |-> [X |-> 0, Y |-> 0, MaxX |-> 0, MaxY |-> 0, PrevReadAbsMouseButtons |-> 0],
      Mouse |-> [DeltaX |-> 0, DeltaY |-> 0, XScale |-> 0, YScale |-> 0, XThreshold |-> 0,
                 YThreshold |-> 0, KeyCodeDeltaX |-> 0, KeyCodeDeltaY |-> 0, YAxis |-> 0,
                 Action |-> 0],
      Joy |-> [JoyData |-> <<0, 0>>, PrevJoyData |-> <<0, 0>>],
      PauseOutput |-> FALSE, InputBuffer |-> <<>>,
      Buttons |-> [bLButtonDown |-> 0, bRButtonDown |-> 0, bOldLButtonDown |-> 0,
                   bOldRButtonDown |-> 0],
      bMouseDisabled |-> FALSE, bJoystickDisabled |-> FALSE,
      bDuringResetCriticalTime |-> FALSE, bBothMouseAndJoy |-> FALSE,
      bMouseEnabledDuringReset |-> FALSE, ikbd_reset_counter |-> 0,
      Clock |-> <<0, 0, 0, 0, 0, 0>>,
      MemoryLoad |-> [Addr |-> 0, Total |-> 0, Left |-> 0, Crc |-> <<65535, 65535>>,
                      ExeNbBytes |-> 0],
      pRead |-> "none", pWrite |-> "none", ExeMode |-> FALSE,
      ScanCodeState |-> {}, mem |-> [c \in {} |-> 0], joypad_input_state |-> <<0, 0>>,
      mouseb_old |-> 0,
      ChaosAD |-> [FirstCall |-> TRUE, IgnoreNb |-> 8, Index |-> 0, Count |-> 0],
      AudioSculpture |-> [ASmagic |-> FALSE, ReadCount |-> 0],
      out |-> <<>>, cmd |-> -1, reads |-> 0, boot |-> FALSE ]

\* IKBD_BCD_Adjust
IKBD_BCD_Adjust(val) ==
    LET v1 == IF (val % 16) > 9 THEN (val + 6) % 256 ELSE val
    IN  IF (v1 \div 16) > 9 THEN (v1 + 96) % 256 ELSE v1

\* A faulty variant of IKBD_UpdateClockOnVBL: every call counts one second
IKBD_UpdateClockOnVBL_counts(S) ==
    [S EXCEPT !.Clock[6] = IKBD_BCD_Adjust((@ + 1) % 256)]

\* IKBD_UpdateClockOnVBL: the body is empty
IKBD_UpdateClockOnVBL(S) == S

\* IKBD_Reset(bCold)
IKBD_Reset(S, bCold) == IF bCold THEN IKBD_Boot_ROM(S, TRUE) ELSE IKBD_Boot_ROM(S, FALSE)


(***************************************************************************)
(* Custom 6301 programs: the read handlers                                 *)
(***************************************************************************)
IKBD_CheckPressedKey(S) == IF S.ScanCodeState = {} THEN -1 ELSE 0

IKBD_CustomCodeHandler_Transbeauce2Menu_Read(S) ==
    LET key(code, bit) == IF code \in S.ScanCodeState THEN bit ELSE 0
        res == key(72, 1) + key(80, 2) + key(75, 4) + key(77, 8) + key(98, 64) + key(57, 128)
    IN  acia_ikbd_rx(S, BitOr(res, BitAnd(S.Joy.JoyData[2], 143)))

IKBD_CustomCodeHandler_ChaosAD_Read(S) ==
    LET S1 == IF S.ChaosAD.FirstCall THEN acia_ikbd_rx(S, 254) ELSE S
    IN  [S1 EXCEPT !.ChaosAD.FirstCall = FALSE]

\* the exit of the Audio Sculpture read handler: lines 2516-2521
AudioSculpture_Read_Exit(S) ==
    [IKBD_Boot_ROM(S, FALSE) EXCEPT !.AudioSculpture = [ASmagic |-> FALSE, ReadCount |-> 0]]

\* A faulty variant of IKBD_CustomCodeHandler_AudioSculpture_Read: it exits on
\* the first read after the magic byte
IKBD_CustomCodeHandler_AudioSculpture_Read_early(S, ColorMode) ==
    IF S.AudioSculpture.ASmagic
    THEN AudioSculpture_Read_Exit(S)
    ELSE IF (~ColorMode /\ IKBD_CheckPressedKey(S) >= 0) \/ 57 \in S.ScanCodeState
         THEN acia_ikbd_rx(S, 57)
         ELSE S

IKBD_CustomCodeHandler_AudioSculpture_Read(S, ColorMode) ==
    IF S.AudioSculpture.ASmagic
    THEN LET S1 == [S EXCEPT !.AudioSculpture.ReadCount = @ + 1]
         IN  IF S1.AudioSculpture.ReadCount = 2 THEN AudioSculpture_Read_Exit(S1) ELSE S1
    ELSE IF (~ColorMode /\ IKBD_CheckPressedKey(S) >= 0) \/ 57 \in S.ScanCodeState
         THEN acia_ikbd_rx(S, 57)
         ELSE S

\* (*pIKBD_CustomCodeHandler_Read) ()
CallReadHandler(S) ==
    LET S1 == [S EXCEPT !.reads = @ + 1]
    IN  CASE S.pRead = "FroggiesMenu_Read" -> S1
          [] S.pRead = "Transbeauce2Menu_Read" -> IKBD_CustomCodeHandler_Transbeauce2Menu_Read(S1)
          [] S.pRead = "DragonnelsMenu_Read" -> S1
          [] S.pRead = "ChaosAD_Read" -> IKBD_CustomCodeHandler_ChaosAD_Read(S1)
          [] S.pRead = "AudioSculpture_Color_Read" ->
                 IKBD_CustomCodeHandler_AudioSculpture_Read(S1, TRUE)
          [] S.pRead = "AudioSculpture_Mono_Read" ->
                 IKBD_CustomCodeHandler_AudioSculpture_Read(S1, FALSE)

\* if ( IKBD_ExeMode && pIKBD_CustomCodeHandler_Read ) (*pIKBD_CustomCodeHandler_Read) ();
ReadHandlerIfExecuting(S) ==
    IF S.ExeMode /\ S.pRead # "none" THEN CallReadHandler(S) ELSE S

(***************************************************************************)
(* IKBD_PressSTKey                                                         *)
(***************************************************************************)
\* A faulty variant of IKBD_PressSTKey: the read handler is not called
IKBD_PressSTKey_noRead(S, ScanCode) ==
    IF S.JoystickMode = AUTOMODE_JOYSTICK_MONITORING THEN S
    ELSE LET key == ScanCode % 128
         IN  acia_ikbd_rx([S EXCEPT !.ScanCodeState =
                              IF BitAnd(ScanCode, 128) # 0 THEN @ \ {key} ELSE @ \cup {key}],
                          ScanCode)

\* A faulty variant of IKBD_PressSTKey: the joystick mode is not tested
IKBD_PressSTKey_always(S, ScanCode) ==
    LET key == ScanCode % 128
        S1  == [S EXCEPT !.ScanCodeState =
                   IF BitAnd(ScanCode, 128) # 0 THEN @ \ {key} ELSE @ \cup {key}]
    IN  ReadHandlerIfExecuting(acia_ikbd_rx(S1, ScanCode))

IKBD_PressSTKey(S, ScanCode) ==
    IF S.JoystickMode = AUTOMODE_JOYSTICK_MONITORING THEN S
    ELSE LET key == ScanCode % 128
             S1  == [S EXCEPT !.ScanCodeState =
                        IF BitAnd(ScanCode, 128) # 0 THEN @ \ {key} ELSE @ \cup {key}]
         IN  ReadHandlerIfExecuting(acia_ikbd_rx(S1, ScanCode))

RECURSIVE IKBD_PressSTKeys(_, _)
IKBD_PressSTKeys(S, codes) ==
    IF codes = <<>> THEN S
    ELSE IKBD_PressSTKeys(IKBD_PressSTKey(S, Head(codes)), Tail(codes))

(***************************************************************************)
(* The auto-report generator                                               *)
(***************************************************************************)
IKBD_ButtonBool(Button) == Button # 0

IKBD_ButtonsEqual(Button1, Button2) == IKBD_ButtonBool(Button1) = IKBD_ButtonBool(Button2)

\* bit j of the 16-bit value v
Bit(v, j) == (v \div (2 ^ j)) % 2 = 1

\* jp->joystick of IKBD_GetJoystickData for joypad[i] and register value state
RECURSIVE joypad_joystick(_, _, _, _)
joypad_joystick(S, i, state, j) ==
    IF j > 15 THEN 0
    ELSE BitOr(IF Bit(state, j) THEN ReadCell(S, << <<"joystick", i>>, j >>) ELSE 0,
               joypad_joystick(S, i, state, j + 1))

\* the scancodes IKBD_GetJoystickData sends for joypad[i]: one per changed
\* bit with a non-zero map.scancode, the release code when the bit is now 0
RECURSIVE joypad_scancodes(_, _, _, _, _)
joypad_scancodes(S, i, state, changed, j) ==
    IF j > 15 THEN <<>>
    ELSE LET scan == ReadCell(S, << <<"scancode", i>>, j >>)
             this == IF Bit(changed, j) /\ scan # 0
                     THEN << IF Bit(state, j) THEN scan ELSE BitOr(scan, 128) >>
                     ELSE <<>>
         IN  this \o joypad_scancodes(S, i, state, changed, j + 1)

\* IKBD_GetJoystickData; joyb is <<*joypad[0].input.source, *joypad[1].input.source>>
IKBD_GetJoystickData(S, joyb) ==
    LET changed(i) == BitXor(S.joypad_input_state[i + 1], joyb[i + 1])
        S1 == acia_ikbd_rx_all(S, joypad_scancodes(S, 0, joyb[1], changed(0), 0)
                                  \o joypad_scancodes(S, 1, joyb[2], changed(1), 0))
        j0 == joypad_joystick(S, 0, joyb[1], 0)
        j1 == joypad_joystick(S, 1, joyb[2], 0)
    IN  [S1 EXCEPT !.joypad_input_state = joyb,
                   !.Joy.JoyData =
                       << IF S.MouseMode = AUTOMODE_OFF
                             \/ (S.bBothMouseAndJoy /\ S.MouseMode = AUTOMODE_MOUSEREL)
                          THEN j0 ELSE 0,
                          j1 >>]

IKBD_DuplicateMouseFireButtons(S) ==
    IF S.MouseMode = AUTOMODE_OFF
    THEN [S EXCEPT !.Joy.JoyData =
            << IF BitAnd(S.Buttons.bLButtonDown, BUTTON_MOUSE) # 0
               THEN BitOr(@[1], ATARIJOY_BITMASK_FIRE) ELSE @[1],
               IF BitAnd(S.Buttons.bRButtonDown, BUTTON_MOUSE) # 0
               THEN BitOr(@[2], ATARIJOY_BITMASK_FIRE) ELSE @[2] >>]
    ELSE LET pressed == BitAnd(S.Joy.JoyData[2], ATARIJOY_BITMASK_FIRE) # 0
                        \/ BitAnd(S.Buttons.bRButtonDown, BUTTON_MOUSE) # 0
         IN  IF pressed
             THEN [S EXCEPT !.Joy.JoyData[2] = BitOr(@, ATARIJOY_BITMASK_FIRE),
                            !.Buttons.bRButtonDown = BitOr(@, BUTTON_JOYSTICK)]
             ELSE [S EXCEPT !.Joy.JoyData[2] = BitClear(@, ATARIJOY_BITMASK_FIRE),
                            !.Buttons.bRButtonDown = BitClear(@, BUTTON_JOYSTICK)]

\* A faulty variant of IKBD_Cmd_ReadAbsMousePos: the new button mask is not
\* stored
IKBD_Cmd_ReadAbsMousePos_noStore(S) ==
    LET Buttons0 == (IF S.Buttons.bRButtonDown # 0 THEN 1 ELSE 2)
                    + (IF S.Buttons.bLButtonDown # 0 THEN 4 ELSE 8)
        PrevButtons == S.Abs.PrevReadAbsMouseButtons
    IN  acia_ikbd_rx_all(S, << 247, BitClear(Buttons0, PrevButtons),
                               S.Abs.X \div 256, S.Abs.X % 256,
                               S.Abs.Y \div 256, S.Abs.Y % 256 >>)

\* IKBD_Cmd_ReadAbsMousePos (command 0x0D, also called by IKBD_SendOnMouseAction)
IKBD_Cmd_ReadAbsMousePos(S) ==
    LET Buttons0 == (IF S.Buttons.bRButtonDown # 0 THEN 1 ELSE 2)
                    + (IF S.Buttons.bLButtonDown # 0 THEN 4 ELSE 8)
        PrevButtons == S.Abs.PrevReadAbsMouseButtons
        S1 == [S EXCEPT !.Abs.PrevReadAbsMouseButtons = Buttons0]
    IN  acia_ikbd_rx_all(S1, << 247, BitClear(Buttons0, PrevButtons),
                                S.Abs.X \div 256, S.Abs.X % 256,
                                S.Abs.Y \div 256, S.Abs.Y % 256 >>)

\* the key-style codes for the button transitions (0x74 left, 0x75 right)
ButtonEdgeCodes(S) ==
    LET L == IKBD_ButtonBool(S.Buttons.bLButtonDown)
        R == IKBD_ButtonBool(S.Buttons.bRButtonDown)
        oldL == IKBD_ButtonBool(S.Buttons.bOldLButtonDown)
        oldR == IKBD_ButtonBool(S.Buttons.bOldRButtonDown)
    IN  (IF L /\ ~oldL THEN <<116>> ELSE IF oldL /\ ~L THEN <<244>> ELSE <<>>)
        \o (IF R /\ ~oldR THEN <<117>> ELSE IF oldR /\ ~R THEN <<245>> ELSE <<>>)

IKBD_SendOnMouseAction(S) ==
    IF BitAnd(S.Mouse.Action, 4) # 0
    THEN acia_ikbd_rx_all(S, ButtonEdgeCodes(S))
    ELSE IF BitAnd(S.Mouse.Action, 3) # 0
    THEN LET L == IKBD_ButtonBool(S.Buttons.bLButtonDown)
             R == IKBD_ButtonBool(S.Buttons.bRButtonDown)
             oldL == IKBD_ButtonBool(S.Buttons.bOldLButtonDown)
             oldR == IKBD_ButtonBool(S.Buttons.bOldRButtonDown)
             onPress == BitAnd(S.Mouse.Action, 1) # 0
             onRelease == BitAnd(S.Mouse.Action, 2) # 0
             upd(p, cond, clr, set) == IF cond THEN BitOr(BitClear(p, clr), set) ELSE p
             p1 == upd(S.Abs.PrevReadAbsMouseButtons, onPress /\ L /\ ~oldL, 4, 2)
             p2 == upd(p1, onPress /\ R /\ ~oldR, 1, 8)
             p3 == upd(p2, onRelease /\ oldL /\ ~L, 8, 1)
             p4 == upd(p3, onRelease /\ oldR /\ ~R, 2, 4)
             bReportPosition == (onPress /\ ((L /\ ~oldL) \/ (R /\ ~oldR)))
                                \/ (onRelease /\ ((oldL /\ ~L) \/ (oldR /\ ~R)))
             S1 == [S EXCEPT !.Abs.PrevReadAbsMouseButtons = p4]
         IN  IF bReportPosition /\ S.MouseMode = AUTOMODE_MOUSEABS
             THEN IKBD_Cmd_ReadAbsMousePos(S1)
             ELSE S1
    ELSE S

\* A faulty variant of ClipToMax: the upper limit is not applied
ClipToMax_noUpper(v, max) == IF v < 0 THEN 0 ELSE v

\* the clipping of IKBD_UpdateInternalMousePosition
ClipToMax(v, max) ==
    LET lo == IF v < 0 THEN 0 ELSE v
    IN  IF lo > max THEN max ELSE lo

\* A faulty variant of IKBD_UpdateInternalMousePosition: a still mouse
\* leaves the position as it is
IKBD_UpdateInternalMousePosition_whenMoved(S, mx, my) ==
    LET X == S.Abs.X + (IF S.Mouse.XScale > 1 THEN mx * S.Mouse.XScale ELSE mx)
        Y == S.Abs.Y + (IF S.Mouse.YScale > 1 THEN my * S.Mouse.YAxis * S.Mouse.YScale
                        ELSE my * S.Mouse.YAxis)
    IN  IF mx = 0 /\ my = 0 THEN [S EXCEPT !.Mouse.DeltaX = mx, !.Mouse.DeltaY = my]
        ELSE [S EXCEPT !.Mouse.DeltaX = mx, !.Mouse.DeltaY = my,
                       !.Abs.X = ClipToMax(X, S.Abs.MaxX),
                       !.Abs.Y = ClipToMax(Y, S.Abs.MaxY)]

\* IKBD_UpdateInternalMousePosition; mx, my are v4sa_mousex, v4sa_mousey
IKBD_UpdateInternalMousePosition(S, mx, my) ==
    LET X == S.Abs.X + (IF S.Mouse.XScale > 1 THEN mx * S.Mouse.XScale ELSE mx)
        Y == S.Abs.Y + (IF S.Mouse.YScale > 1 THEN my * S.Mouse.YAxis * S.Mouse.YScale
                        ELSE my * S.Mouse.YAxis)
    IN  [S EXCEPT !.Mouse.DeltaX = mx, !.Mouse.DeltaY = my,
                  !.Abs.X = ClipToMax(X, S.Abs.MaxX),
                  !.Abs.Y = ClipToMax(Y, S.Abs.MaxY)]

\* A faulty variant of IKBD_SendAutoJoysticksMonitoring: the two fire bits
\* change places
IKBD_SendAutoJoysticksMonitoring_swapped(S) ==
    LET Byte1 == (BitAnd(S.Joy.JoyData[2], ATARIJOY_BITMASK_FIRE) \div 64)
                 + (BitAnd(S.Joy.JoyData[1], ATARIJOY_BITMASK_FIRE) \div 128)
        Byte2 == (BitAnd(S.Joy.JoyData[1], 15) * 16) + BitAnd(S.Joy.JoyData[2], 15)
    IN  acia_ikbd_rx_all(S, <<Byte1, Byte2>>)

IKBD_SendAutoJoysticksMonitoring(S) ==
    LET Byte1 == (BitAnd(S.Joy.JoyData[1], ATARIJOY_BITMASK_FIRE) \div 64)
                 + (BitAnd(S.Joy.JoyData[2], ATARIJOY_BITMASK_FIRE) \div 128)
        Byte2 == (BitAnd(S.Joy.JoyData[1], 15) * 16) + BitAnd(S.Joy.JoyData[2], 15)
    IN  acia_ikbd_rx_all(S, <<Byte1, Byte2>>)

\* A faulty variant of one lane of IKBD_SendAutoJoysticks: the lane's mask
\* is sent whether it changed or not
SendAutoJoystickLane_always(S, lane) ==
    LET JoyData == S.Joy.JoyData[lane + 1]
    IN  [acia_ikbd_rx_all(S, <<254 + lane, JoyData>>)
            EXCEPT !.Joy.PrevJoyData[lane + 1] = JoyData]

\* one lane of IKBD_SendAutoJoysticks: lane 0 has header 0xFE, lane 1 0xFF
SendAutoJoystickLane(S, lane) ==
    LET JoyData == S.Joy.JoyData[lane + 1]
    IN  IF JoyData # S.Joy.PrevJoyData[lane + 1]
        THEN [acia_ikbd_rx_all(S, <<254 + lane, JoyData>>)
                 EXCEPT !.Joy.PrevJoyData[lane + 1] = JoyData]
        ELSE S

IKBD_SendAutoJoysticks(S) == SendAutoJoystickLane(SendAutoJoystickLane(S, 0), 1)


\* A faulty variant of IKBD_SendRelMousePacket: the header never carries the
\* buttons
RECURSIVE IKBD_SendRelMousePacket_bareHeader(_)
IKBD_SendRelMousePacket_bareHeader(S) ==
    LET ByteRelX == ToInt8(S.Mouse.DeltaX)
        ByteRelY == ToInt8(S.Mouse.DeltaY)
    IN  IF \/ (ByteRelX < 0 /\ ByteRelX <= -S.Mouse.XThreshold)
           \/ (ByteRelX > 0 /\ ByteRelX >= S.Mouse.XThreshold)
           \/ (ByteRelY < 0 /\ ByteRelY <= -S.Mouse.YThreshold)
           \/ (ByteRelY > 0 /\ ByteRelY >= S.Mouse.YThreshold)
           \/ ~IKBD_ButtonsEqual(S.Buttons.bOldLButtonDown, S.Buttons.bLButtonDown)
           \/ ~IKBD_ButtonsEqual(S.Buttons.bOldRButtonDown, S.Buttons.bRButtonDown)
        THEN IKBD_SendRelMousePacket_bareHeader(
                 [acia_ikbd_rx_all(S, <<248, ByteRelX, ByteRelY * S.Mouse.YAxis>>)
                    EXCEPT !.Mouse.DeltaX = @ - ByteRelX,
                           !.Mouse.DeltaY = @ - ByteRelY,
                           !.Buttons.bOldLButtonDown = S.Buttons.bLButtonDown,
                           !.Buttons.bOldRButtonDown = S.Buttons.bRButtonDown])
        ELSE S

\* A faulty variant of IKBD_SendRelMousePacket: one packet, and the deltas
\* keep what was sent
IKBD_SendRelMousePacket_noSubtract(S) ==
    LET ByteRelX == ToInt8(S.Mouse.DeltaX)
        ByteRelY == ToInt8(S.Mouse.DeltaY)
        Header == 248 + (IF S.Buttons.bLButtonDown # 0 THEN 2 ELSE 0)
                      + (IF S.Buttons.bRButtonDown # 0 THEN 1 ELSE 0)
    IN  IF \/ (ByteRelX < 0 /\ ByteRelX <= -S.Mouse.XThreshold)
           \/ (ByteRelX > 0 /\ ByteRelX >= S.Mouse.XThreshold)
           \/ (ByteRelY < 0 /\ ByteRelY <= -S.Mouse.YThreshold)
           \/ (ByteRelY > 0 /\ ByteRelY >= S.Mouse.YThreshold)
           \/ ~IKBD_ButtonsEqual(S.Buttons.bOldLButtonDown, S.Buttons.bLButtonDown)
           \/ ~IKBD_ButtonsEqual(S.Buttons.bOldRButtonDown, S.Buttons.bRButtonDown)
        THEN [acia_ikbd_rx_all(S, <<Header, ByteRelX, ByteRelY * S.Mouse.YAxis>>)
                 EXCEPT !.Buttons.bOldLButtonDown = S.Buttons.bLButtonDown,
                        !.Buttons.bOldRButtonDown = S.Buttons.bRButtonDown]
        ELSE S

\* IKBD_SendRelMousePacket: the while loop
RECURSIVE IKBD_SendRelMousePacket(_)
IKBD_SendRelMousePacket(S) ==
    LET ByteRelX == ToInt8(S.Mouse.DeltaX)
        ByteRelY == ToInt8(S.Mouse.DeltaY)
        Header == 248 + (IF S.Buttons.bLButtonDown # 0 THEN 2 ELSE 0)
                      + (IF S.Buttons.bRButtonDown # 0 THEN 1 ELSE 0)
    IN  IF \/ (ByteRelX < 0 /\ ByteRelX <= -S.Mouse.XThreshold)
           \/ (ByteRelX > 0 /\ ByteRelX >= S.Mouse.XThreshold)
           \/ (ByteRelY < 0 /\ ByteRelY <= -S.Mouse.YThreshold)
           \/ (ByteRelY > 0 /\ ByteRelY >= S.Mouse.YThreshold)
           \/ ~IKBD_ButtonsEqual(S.Buttons.bOldLButtonDown, S.Buttons.bLButtonDown)
           \/ ~IKBD_ButtonsEqual(S.Buttons.bOldRButtonDown, S.Buttons.bRButtonDown)
        THEN IKBD_SendRelMousePacket(
                 [acia_ikbd_rx_all(S, <<Header, ByteRelX, ByteRelY * S.Mouse.YAxis>>)
                    EXCEPT !.Mouse.DeltaX = @ - ByteRelX,
                           !.Mouse.DeltaY = @ - ByteRelY,
                           !.Buttons.bOldLButtonDown = S.Buttons.bLButtonDown,
                           !.Buttons.bOldRButtonDown = S.Buttons.bRButtonDown])
        ELSE S

\* one axis of one pass of the loop of IKBD_SendCursorMousePacket: the
\* codes sent and the delta left; neg and pos are the two cursor codes
CursorAxis(delta, step, neg, pos) ==
    IF delta = 0 THEN [codes |-> <<>>, delta |-> delta]
    ELSE LET first == delta <= -step
             d1    == IF first THEN delta + step ELSE delta
             second == d1 >= step
             d2    == IF second THEN d1 - step ELSE d1
         IN  [codes |-> (IF first THEN <<neg, neg + 128>> ELSE <<>>)
                        \o (IF second THEN <<pos, pos + 128>> ELSE <<>>),
              delta |-> d2]

\* A faulty variant of SendCursorMouseLoop: the loop runs while i <= 10
RECURSIVE SendCursorMouseLoop_eleven(_, _)
SendCursorMouseLoop_eleven(S, i) ==
    IF i <= 10 /\ ( S.Mouse.DeltaX # 0 \/ S.Mouse.DeltaY # 0
                    \/ ~IKBD_ButtonsEqual(S.Buttons.bOldLButtonDown, S.Buttons.bLButtonDown)
                    \/ ~IKBD_ButtonsEqual(S.Buttons.bOldRButtonDown, S.Buttons.bRButtonDown) )
    THEN LET x == CursorAxis(S.Mouse.DeltaX, S.Mouse.KeyCodeDeltaX, 75, 77)
             y == CursorAxis(S.Mouse.DeltaY, S.Mouse.KeyCodeDeltaY, 72, 80)
             S1 == acia_ikbd_rx_all(S, x.codes \o y.codes \o ButtonEdgeCodes(S))
         IN  SendCursorMouseLoop_eleven(
                 [S1 EXCEPT !.Mouse.DeltaX = x.delta, !.Mouse.DeltaY = y.delta,
                            !.Buttons.bOldLButtonDown = S.Buttons.bLButtonDown,
                            !.Buttons.bOldRButtonDown = S.Buttons.bRButtonDown],
                 i + 1)
    ELSE S

RECURSIVE SendCursorMouseLoop(_, _)
SendCursorMouseLoop(S, i) ==
    IF i < 10 /\ ( S.Mouse.DeltaX # 0 \/ S.Mouse.DeltaY # 0
                   \/ ~IKBD_ButtonsEqual(S.Buttons.bOldLButtonDown, S.Buttons.bLButtonDown)
                   \/ ~IKBD_ButtonsEqual(S.Buttons.bOldRButtonDown, S.Buttons.bRButtonDown) )
    THEN LET x == CursorAxis(S.Mouse.DeltaX, S.Mouse.KeyCodeDeltaX, 75, 77)
             y == CursorAxis(S.Mouse.DeltaY, S.Mouse.KeyCodeDeltaY, 72, 80)
             S1 == acia_ikbd_rx_all(S, x.codes \o y.codes \o ButtonEdgeCodes(S))
         IN  SendCursorMouseLoop(
                 [S1 EXCEPT !.Mouse.DeltaX = x.delta, !.Mouse.DeltaY = y.delta,
                            !.Buttons.bOldLButtonDown = S.Buttons.bLButtonDown,
                            !.Buttons.bOldRButtonDown = S.Buttons.bRButtonDown],
                 i + 1)
    ELSE S

IKBD_SendCursorMousePacket(S) == SendCursorMouseLoop(S, 0)

\* the two while loops on v4sa_mousew: one 8-code burst per wheel unit
RECURSIVE WheelCodes(_)
WheelCodes(mw) ==
    IF mw > 0 THEN <<246, 5, 0, 0, 0, 0, 0, 89>> \o WheelCodes(mw - 1)
    ELSE IF mw < 0 THEN <<246, 5, 0, 0, 0, 0, 0, 90>> \o WheelCodes(mw + 1)
    ELSE <<>>

\* the key codes for the changed bits 2, 3, 4 of v4sa_mouseb
ExtraButtonCodes(mb, old) ==
    LET diff == BitXor(mb, old)
        code(bit, c) == IF BitAnd(diff, bit) # 0
                        THEN << c + (IF BitAnd(mb, bit) # 0 THEN 0 ELSE 128) >>
                        ELSE <<>>
    IN  code(4, 55) \o code(8, 94) \o code(16, 95)

\* A faulty variant of ResetCountdown: the boot-complete byte is sent one tick early
ResetCountdown_early(S) ==
    LET S1 == [S EXCEPT !.ikbd_reset_counter = @ - 1]
    IN  IF S1.ikbd_reset_counter <= 1
        THEN acia_ikbd_rx([S1 EXCEPT !.ikbd_reset_counter = 0,
                                     !.bDuringResetCriticalTime = FALSE,
                                     !.bMouseEnabledDuringReset = FALSE],
                          IKBD_ROM_VERSION)
        ELSE S1

\* A faulty variant of ResetCountdown: the end of the countdown leaves the
\* critical-window flag set
ResetCountdown_keepsWindow(S) ==
    LET S1 == [S EXCEPT !.ikbd_reset_counter = @ - 1]
    IN  IF S1.ikbd_reset_counter = 0
        THEN acia_ikbd_rx([S1 EXCEPT !.bMouseEnabledDuringReset = FALSE], IKBD_ROM_VERSION)
        ELSE S1

\* The first lines of IKBD_SendAutoKeyboardCommands: the reset countdown
ResetCountdown(S) ==
    LET S1 == [S EXCEPT !.ikbd_reset_counter = @ - 1]
    IN  IF S1.ikbd_reset_counter = 0
        THEN acia_ikbd_rx([S1 EXCEPT !.bDuringResetCriticalTime = FALSE,
                                     !.bMouseEnabledDuringReset = FALSE],
                          IKBD_ROM_VERSION)
        ELSE S1

\* IKBD_SendAutoKeyboardCommands after the joystick-monitoring test: lines 1183-1246
AutoReports(S, mb, mw) ==
    LET S1 == IF S.JoystickMode = AUTOMODE_JOYSTICK THEN IKBD_SendAutoJoysticks(S) ELSE S
        S2 == IF S1.MouseMode = AUTOMODE_MOUSEREL THEN IKBD_SendRelMousePacket(S1)
              ELSE IF S1.MouseMode = AUTOMODE_MOUSECURSOR THEN IKBD_SendCursorMousePacket(S1)
              ELSE S1
        S3 == [S2 EXCEPT !.Buttons.bOldLButtonDown = S2.Buttons.bLButtonDown,
                         !.Buttons.bOldRButtonDown = S2.Buttons.bRButtonDown]
        S4 == IKBD_PressSTKeys(S3, WheelCodes(mw))
        S5 == IKBD_PressSTKeys(S4, ExtraButtonCodes(mb, S4.mouseb_old))
    IN  ReadHandlerIfExecuting([S5 EXCEPT !.mouseb_old = mb])

\* IKBD_SendAutoKeyboardCommands.  The live inputs read by this call:
\* mx, my = v4sa_mousex, v4sa_mousey; mb = v4sa_mouseb; mw = v4sa_mousew;
\* joyb = the two joystick registers
IKBD_SendAutoKeyboardCommands(S, mx, my, mb, mw, joyb) ==
    IF S.ikbd_reset_counter # 0 THEN ResetCountdown(S)
    ELSE LET S1 == [S EXCEPT !.Buttons.bLButtonDown =
                                 IF BitAnd(mb, 2) # 0 THEN BUTTON_MOUSE ELSE 0,
                             !.Buttons.bRButtonDown =
                                 IF BitAnd(mb, 1) # 0 THEN BUTTON_MOUSE ELSE 0]
             S2 == IKBD_GetJoystickData(S1, joyb)
             S3 == IKBD_DuplicateMouseFireButtons(S2)
             S4 == IKBD_SendOnMouseAction(S3)
             S5 == IKBD_UpdateInternalMousePosition(S4, mx, my)
         IN  IF S5.JoystickMode = AUTOMODE_JOYSTICK_MONITORING
             THEN IKBD_SendAutoJoysticksMonitoring(S5)
             ELSE AutoReports(S5, mb, mw)

(***************************************************************************)
(* Custom 6301 programs: the write handlers                                *)
(***************************************************************************)
\* the first registry entry i >= from with found[i], or 0
RECURSIVE FirstCustomCode(_, _)
FirstCustomCode(found, from) ==
    IF from > NbCustomCode THEN 0
    ELSE IF found[from] THEN from
    ELSE FirstCustomCode(found, from + 1)

\* A faulty variant of IKBD_CustomCodeHandler_CommonBoot: it matches on the
\* byte count alone
IKBD_CustomCodeHandler_CommonBoot_countOnly(S, aciabyte) ==
    LET S1 == [S EXCEPT !.MemoryLoad.Crc = crc32_add_byte(@, aciabyte),
                        !.MemoryLoad.ExeNbBytes = @ + 1]
        match(i) == CustomCodeDefinitions[i].MainProgNbBytes = S1.MemoryLoad.ExeNbBytes
        i == FirstCustomCode([k \in 1..NbCustomCode |-> match(k)], 1)
    IN  IF i # 0
        THEN [S1 EXCEPT !.pRead = CustomCodeDefinitions[i].Read,
                        !.pWrite = CustomCodeDefinitions[i].Write]
        ELSE S1

IKBD_CustomCodeHandler_CommonBoot(S, aciabyte) ==
    LET S1 == [S EXCEPT !.MemoryLoad.Crc = crc32_add_byte(@, aciabyte),
                        !.MemoryLoad.ExeNbBytes = @ + 1]
        match(i) == /\ CustomCodeDefinitions[i].MainProgNbBytes = S1.MemoryLoad.ExeNbBytes
                    /\ CustomCodeDefinitions[i].MainProgCrc = S1.MemoryLoad.Crc
        i == FirstCustomCode([k \in 1..NbCustomCode |-> match(k)], 1)
    IN  IF i # 0
        THEN [S1 EXCEPT !.pRead = CustomCodeDefinitions[i].Read,
                        !.pWrite = CustomCodeDefinitions[i].Write]
        ELSE S1

IKBD_CustomCodeHandler_FroggiesMenu_Write(S, aciabyte) ==
    IF BitAnd(aciabyte, 128) # 0 THEN IKBD_Boot_ROM(S, FALSE)
    ELSE LET key(code) == code \in S.ScanCodeState
             m80 == IF S.Mouse.DeltaY > 0 THEN 6 ELSE IF S.Mouse.DeltaY < 0 THEN 122 ELSE 0
             m81 == IF S.Mouse.DeltaX > 0 THEN 6 ELSE IF S.Mouse.DeltaX < 0 THEN 122 ELSE 0
             m82 == IF BitAnd(S.Buttons.bLButtonDown, BUTTON_MOUSE) # 0 THEN 128 ELSE 0
             k80 == BitOr(BitOr(m80, IF key(72) THEN 122 ELSE 0), IF key(80) THEN 6 ELSE 0)
             k81 == BitOr(BitOr(m81, IF key(75) THEN 122 ELSE 0), IF key(77) THEN 6 ELSE 0)
             res82 == BitOr(m82, IF key(112) THEN 128 ELSE 0)
             res80 == BitOr(k80, res82)
             res81 == BitOr(k81, res82)
             res83 == 252
         IN  IF aciabyte = 1 THEN acia_ikbd_rx(S, res80)
             ELSE IF aciabyte = 4 THEN acia_ikbd_rx_all(S, <<res83, res82, res81, res80>>)
             ELSE S

IKBD_CustomCodeHandler_DragonnelsMenu_Write(S, aciabyte) ==
    LET res == IF BitAnd(S.Buttons.bLButtonDown, BUTTON_MOUSE) # 0 THEN 128
               ELSE IF S.Mouse.DeltaY > 0 THEN 4
               ELSE IF S.Mouse.DeltaY < 0 THEN 252
               ELSE 0
    IN  acia_ikbd_rx(S, res)

ChaosAD_KeyBuffer == <<202, 10, 188, 0, 222, 222, 254, 202>>

IKBD_CustomCodeHandler_ChaosAD_Write(S, aciabyte) ==
    IF S.ChaosAD.IgnoreNb > 0 THEN [S EXCEPT !.ChaosAD.IgnoreNb = @ - 1]
    ELSE IF S.ChaosAD.Count <= 6080
    THEN acia_ikbd_rx([S EXCEPT !.ChaosAD.Count = @ + 1,
                                !.ChaosAD.Index = (@ + 1) % 8],
                      BitXor(aciabyte, ChaosAD_KeyBuffer[S.ChaosAD.Index + 1]))
    ELSE IF aciabyte = 8 THEN IKBD_Boot_ROM(S, FALSE)
    ELSE S

IKBD_CustomCodeHandler_AudioSculpture_Write(S, aciabyte) ==
    IF aciabyte = 66
    THEN acia_ikbd_rx_all([S EXCEPT !.AudioSculpture.ASmagic = TRUE], <<75, 19>>)
    ELSE S

\* (*pIKBD_CustomCodeHandler_Write) ( RDR )
CallWriteHandler(S, RDR) ==
    CASE S.pWrite = "CommonBoot" -> IKBD_CustomCodeHandler_CommonBoot(S, RDR)
      [] S.pWrite = "FroggiesMenu_Write" -> IKBD_CustomCodeHandler_FroggiesMenu_Write(S, RDR)
      [] S.pWrite = "Transbeauce2Menu_Write" -> S
      [] S.pWrite = "DragonnelsMenu_Write" -> IKBD_CustomCodeHandler_DragonnelsMenu_Write(S, RDR)
      [] S.pWrite = "ChaosAD_Write" -> IKBD_CustomCodeHandler_ChaosAD_Write(S, RDR)
      [] S.pWrite = "AudioSculpture_Write" -> IKBD_CustomCodeHandler_AudioSculpture_Write(S, RDR)

\* A faulty variant of IKBD_LoadMemoryByte: when no entry matches, the
\* handlers are left as they are
IKBD_LoadMemoryByte_keepHandlers(S, aciabyte) ==
    LET src == resolve_address(S.MemoryLoad.Addr)
        S1 == [S EXCEPT !.MemoryLoad.Crc = crc32_add_byte(@, aciabyte),
                        !.MemoryLoad.Addr = @ + 1,
                        !.MemoryLoad.Left = @ - 1]
        S2 == IF src # <<>> THEN WriteCell(S1, src, aciabyte) ELSE S1
        match(i) == CustomCodeDefinitions[i].LoadMemCrc = S2.MemoryLoad.Crc
        i == FirstCustomCode([k \in 1..NbCustomCode |-> match(k)], 1)
    IN  IF S2.MemoryLoad.Left # 0 THEN S2
        ELSE IF i # 0
        THEN [S2 EXCEPT !.MemoryLoad.Crc = crc32_reset,
                        !.MemoryLoad.ExeNbBytes = 0,
                        !.pRead = "none",
                        !.pWrite = CustomCodeDefinitions[i].ExeBootHandler]
        ELSE S2

\* A faulty variant of IKBD_LoadMemoryByte: the address is incremented before
\* it is resolved
IKBD_LoadMemoryByte_preIncrement(S, aciabyte) ==
    LET src == resolve_address(S.MemoryLoad.Addr + 1)
        S1 == [S EXCEPT !.MemoryLoad.Crc = crc32_add_byte(@, aciabyte),
                        !.MemoryLoad.Addr = @ + 1,
                        !.MemoryLoad.Left = @ - 1]
        S2 == IF src # <<>> THEN WriteCell(S1, src, aciabyte) ELSE S1
        match(i) == CustomCodeDefinitions[i].LoadMemCrc = S2.MemoryLoad.Crc
        i == FirstCustomCode([k \in 1..NbCustomCode |-> match(k)], 1)
    IN  IF S2.MemoryLoad.Left # 0 THEN S2
        ELSE IF i # 0
        THEN [S2 EXCEPT !.MemoryLoad.Crc = crc32_reset,
                        !.MemoryLoad.ExeNbBytes = 0,
                        !.pRead = "none",
                        !.pWrite = CustomCodeDefinitions[i].ExeBootHandler]
        ELSE [S2 EXCEPT !.pRead = "none", !.pWrite = "none"]

\* IKBD_LoadMemoryByte
IKBD_LoadMemoryByte(S, aciabyte) ==
    LET src == resolve_address(S.MemoryLoad.Addr)
        S1 == [S EXCEPT !.MemoryLoad.Crc = crc32_add_byte(@, aciabyte),
                        !.MemoryLoad.Addr = @ + 1,
                        !.MemoryLoad.Left = @ - 1]
        S2 == IF src # <<>> THEN WriteCell(S1, src, aciabyte) ELSE S1
        match(i) == CustomCodeDefinitions[i].LoadMemCrc = S2.MemoryLoad.Crc
        i == FirstCustomCode([k \in 1..NbCustomCode |-> match(k)], 1)
    IN  IF S2.MemoryLoad.Left # 0 THEN S2
        ELSE IF i # 0
        THEN [S2 EXCEPT !.MemoryLoad.Crc = crc32_reset,
                        !.MemoryLoad.ExeNbBytes = 0,
                        !.pRead = "none",
                        !.pWrite = CustomCodeDefinitions[i].ExeBootHandler]
        ELSE [S2 EXCEPT !.pRead = "none", !.pWrite = "none"]


(***************************************************************************)
(* The standard command handlers.  B(S, k) is Keyboard.InputBuffer[k]      *)
(***************************************************************************)
B(S, k) == S.InputBuffer[k + 1]

\* A faulty variant of IKBD_Cmd_Reset: the ROM clears all the RAM
IKBD_Cmd_Reset_clearsAll(S) == IF B(S, 1) = 1 THEN IKBD_Boot_ROM(S, TRUE) ELSE S

IKBD_Cmd_Reset(S) == IF B(S, 1) = 1 THEN IKBD_Boot_ROM(S, FALSE) ELSE S

IKBD_Cmd_MouseAction(S) ==
    [S EXCEPT !.Mouse.Action = B(S, 1), !.Abs.PrevReadAbsMouseButtons = ABS_PREVBUTTONS]

IKBD_Cmd_RelMouseMode(S) ==
    [S EXCEPT !.MouseMode = AUTOMODE_MOUSEREL,
              !.bMouseEnabledDuringReset = IF S.bDuringResetCriticalTime THEN TRUE ELSE @]

IKBD_Cmd_AbsMouseMode(S) ==
    [S EXCEPT !.MouseMode = AUTOMODE_MOUSEABS,
              !.Abs.MaxX = (B(S, 1) * 256) + B(S, 2),
              !.Abs.MaxY = (B(S, 3) * 256) + B(S, 4)]

IKBD_Cmd_MouseCursorKeycodes(S) ==
    [S EXCEPT !.MouseMode = AUTOMODE_MOUSECURSOR,
              !.Mouse.KeyCodeDeltaX = B(S, 1), !.Mouse.KeyCodeDeltaY = B(S, 2)]

IKBD_Cmd_SetMouseThreshold(S) ==
    [S EXCEPT !.Mouse.XThreshold = B(S, 1), !.Mouse.YThreshold = B(S, 2)]

IKBD_Cmd_SetMouseScale(S) ==
    [S EXCEPT !.Mouse.XScale = B(S, 1), !.Mouse.YScale = B(S, 2)]

\* "Setting these do not clip internal position(this happens on next update)"
IKBD_Cmd_SetInternalMousePos(S) ==
    [S EXCEPT !.Abs.X = (B(S, 2) * 256) + B(S, 3),
              !.Abs.Y = (B(S, 4) * 256) + B(S, 5)]

IKBD_Cmd_SetYAxisDown(S) == [S EXCEPT !.Mouse.YAxis = -1]

IKBD_Cmd_SetYAxisUp(S) == [S EXCEPT !.Mouse.YAxis = 1]

IKBD_Cmd_StartKeyboardTransfer(S) == [S EXCEPT !.PauseOutput = FALSE]

\* A faulty variant of IKBD_CheckResetDisableBug: it tests the two current
\* modes, not the two disabled flags
IKBD_CheckResetDisableBug_byMode(S) ==
    IF S.MouseMode = AUTOMODE_OFF /\ S.JoystickMode = AUTOMODE_OFF
       /\ S.bDuringResetCriticalTime
    THEN [S EXCEPT !.MouseMode = AUTOMODE_MOUSEREL, !.JoystickMode = AUTOMODE_JOYSTICK,
                   !.bBothMouseAndJoy = TRUE]
    ELSE S

IKBD_CheckResetDisableBug(S) ==
    IF S.bMouseDisabled /\ S.bJoystickDisabled /\ S.bDuringResetCriticalTime
    THEN [S EXCEPT !.MouseMode = AUTOMODE_MOUSEREL, !.JoystickMode = AUTOMODE_JOYSTICK,
                   !.bBothMouseAndJoy = TRUE]
    ELSE S

IKBD_Cmd_TurnMouseOff(S) ==
    IKBD_CheckResetDisableBug([S EXCEPT !.MouseMode = AUTOMODE_OFF, !.bMouseDisabled = TRUE])

\* A faulty variant of IKBD_Cmd_StopKeyboardTransfer: the critical window is
\* not tested
IKBD_Cmd_StopKeyboardTransfer_always(S) == [S EXCEPT !.PauseOutput = TRUE]

IKBD_Cmd_StopKeyboardTransfer(S) ==
    IF S.bDuringResetCriticalTime THEN S ELSE [S EXCEPT !.PauseOutput = TRUE]

\* joyb is what the joystick registers read during the call
\* A faulty variant of IKBD_Cmd_ReturnJoystickAuto: the pointer is kept on
\* only when 0x08 came during the reset, not when 0x12 did
IKBD_Cmd_ReturnJoystickAuto_enabledOnly(S, joyb) ==
    LET reenable == S.bDuringResetCriticalTime /\ S.bMouseEnabledDuringReset
        S1 == [S EXCEPT !.JoystickMode = AUTOMODE_JOYSTICK,
                        !.MouseMode = IF reenable THEN AUTOMODE_MOUSEREL ELSE AUTOMODE_OFF,
                        !.bBothMouseAndJoy = IF reenable THEN TRUE ELSE @,
                        !.Joy.PrevJoyData = <<0, 0>>]
    IN  IKBD_SendAutoJoysticks(IKBD_GetJoystickData(S1, joyb))

\* A faulty variant of IKBD_Cmd_ReturnJoystickAuto: the pointer mode is left
\* as it is unless the window re-enables the mouse
IKBD_Cmd_ReturnJoystickAuto_keepsPointer(S, joyb) ==
    LET reenable == S.bDuringResetCriticalTime
                    /\ (S.bMouseEnabledDuringReset \/ S.bMouseDisabled)
        S1 == [S EXCEPT !.JoystickMode = AUTOMODE_JOYSTICK,
                        !.MouseMode = IF reenable THEN AUTOMODE_MOUSEREL ELSE @,
                        !.bBothMouseAndJoy = IF reenable THEN TRUE ELSE @,
                        !.Joy.PrevJoyData = <<0, 0>>]
    IN  IKBD_SendAutoJoysticks(IKBD_GetJoystickData(S1, joyb))

IKBD_Cmd_ReturnJoystickAuto(S, joyb) ==
    LET reenable == S.bDuringResetCriticalTime
                    /\ (S.bMouseEnabledDuringReset \/ S.bMouseDisabled)
        S1 == [S EXCEPT !.JoystickMode = AUTOMODE_JOYSTICK,
                        !.MouseMode = IF reenable THEN AUTOMODE_MOUSEREL ELSE AUTOMODE_OFF,
                        !.bBothMouseAndJoy = IF reenable THEN TRUE ELSE @,
                        !.Joy.PrevJoyData = <<0, 0>>]
    IN  IKBD_SendAutoJoysticks(IKBD_GetJoystickData(S1, joyb))

IKBD_Cmd_StopJoystick(S) == [S EXCEPT !.JoystickMode = AUTOMODE_OFF]

IKBD_Cmd_ReturnJoystick(S) ==
    acia_ikbd_rx_all(S, <<253, S.Joy.JoyData[1], S.Joy.JoyData[2]>>)

\* Keyboard.AutoSendCycles is written here and read nowhere
IKBD_Cmd_SetJoystickMonitoring(S) ==
    [S EXCEPT !.JoystickMode = AUTOMODE_JOYSTICK_MONITORING, !.MouseMode = AUTOMODE_OFF]

IKBD_Cmd_SetJoystickFireDuration(S) == S

IKBD_Cmd_SetCursorForJoystick(S) == S

\* A faulty variant of IKBD_Cmd_DisableJoysticks: the reset-window check is
\* left out
IKBD_Cmd_DisableJoysticks_plain(S) ==
    [S EXCEPT !.JoystickMode = AUTOMODE_OFF, !.bJoystickDisabled = TRUE]

IKBD_Cmd_DisableJoysticks(S) ==
    IKBD_CheckResetDisableBug([S EXCEPT !.JoystickMode = AUTOMODE_OFF,
                                        !.bJoystickDisabled = TRUE])

\* A faulty variant of IKBD_BCD_Check: only the low nibble is tested
IKBD_BCD_Check_lowNibble(val) == (val % 16) <= 9

IKBD_BCD_Check(val) == (val % 16) <= 9 /\ (val \div 16) <= 9

IKBD_Cmd_SetClock(S) ==
    [S EXCEPT !.Clock = [i \in 1..6 |-> IF IKBD_BCD_Check(B(S, i)) THEN B(S, i) ELSE @[i]]]

IKBD_Cmd_ReadClock(S) == acia_ikbd_rx_all(S, <<252>> \o S.Clock)

IKBD_Cmd_LoadMemory(S) ==
    [S EXCEPT !.MemoryLoad.Addr = (B(S, 1) * 256) + B(S, 2),
              !.MemoryLoad.Total = B(S, 3),
              !.MemoryLoad.Left = B(S, 3),
              !.MemoryLoad.Crc = crc32_reset]

IKBD_Cmd_ReadMemory(S) ==
    LET addr == (B(S, 1) * 256) + B(S, 2)
        byte(i) == LET src == resolve_address(addr + i)
                   IN  IF src # <<>> THEN ReadCell(S, src) ELSE 0
    IN  acia_ikbd_rx_all(S, <<246, 32>> \o [i \in 1..6 |-> byte(i - 1)])

\* A faulty variant of IKBD_Cmd_Execute: custom mode is turned on with no
\* handler installed
IKBD_Cmd_Execute_always(S) == [S EXCEPT !.ExeMode = TRUE]

IKBD_Cmd_Execute(S) == IF S.pWrite # "none" THEN [S EXCEPT !.ExeMode = TRUE] ELSE S

IKBD_Cmd_ReportMouseAction(S) ==
    acia_ikbd_rx_all(S, <<246, 7, S.Mouse.Action, 0, 0, 0, 0, 0>>)

IKBD_Cmd_ReportMouseMode(S) ==
    acia_ikbd_rx_all(S, <<246>> \o
        (CASE S.MouseMode = AUTOMODE_MOUSEREL -> <<8, 0, 0, 0, 0, 0, 0>>
           [] S.MouseMode = AUTOMODE_MOUSEABS ->
                  <<9, S.Abs.MaxX \div 256, S.Abs.MaxX, S.Abs.MaxY \div 256, S.Abs.MaxY, 0, 0>>
           [] S.MouseMode = AUTOMODE_MOUSECURSOR ->
                  <<10, S.Mouse.KeyCodeDeltaX, S.Mouse.KeyCodeDeltaY, 0, 0, 0, 0>>
           [] OTHER -> <<>>))

IKBD_Cmd_ReportMouseThreshold(S) ==
    acia_ikbd_rx_all(S, <<246, 11, S.Mouse.XThreshold, S.Mouse.YThreshold, 0, 0, 0, 0>>)

IKBD_Cmd_ReportMouseScale(S) ==
    acia_ikbd_rx_all(S, <<246, 12, S.Mouse.XScale, S.Mouse.YScale, 0, 0, 0, 0>>)

\* A faulty variant of IKBD_Cmd_ReportMouseVertical: the report turns the axis
IKBD_Cmd_ReportMouseVertical_flips(S) ==
    acia_ikbd_rx_all([S EXCEPT !.Mouse.YAxis = -@],
                     <<246, IF S.Mouse.YAxis = -1 THEN 15 ELSE 16, 0, 0, 0, 0, 0, 0>>)

IKBD_Cmd_ReportMouseVertical(S) ==
    acia_ikbd_rx_all(S, <<246, IF S.Mouse.YAxis = -1 THEN 15 ELSE 16, 0, 0, 0, 0, 0, 0>>)

IKBD_Cmd_ReportMouseAvailability(S) ==
    acia_ikbd_rx_all(S, <<246, IF S.MouseMode = AUTOMODE_OFF THEN 18 ELSE 0, 0, 0, 0, 0, 0, 0>>)

\* A faulty variant of IKBD_Cmd_ReportJoystickMode: the report stops the joysticks
IKBD_Cmd_ReportJoystickMode_stops(S) ==
    acia_ikbd_rx_all([S EXCEPT !.JoystickMode = AUTOMODE_OFF],
                     <<246, IF S.JoystickMode = AUTOMODE_JOYSTICK THEN 20 ELSE 21,
                       0, 0, 0, 0, 0, 0>>)

IKBD_Cmd_ReportJoystickMode(S) ==
    acia_ikbd_rx_all(S, <<246, IF S.JoystickMode = AUTOMODE_JOYSTICK THEN 20 ELSE 21,
                          0, 0, 0, 0, 0, 0>>)

IKBD_Cmd_ReportJoystickAvailability(S) ==
    acia_ikbd_rx_all(S, <<246, IF S.JoystickMode = AUTOMODE_OFF THEN 26 ELSE 0,
                          0, 0, 0, 0, 0, 0>>)


(***************************************************************************)
(* The framer and dispatcher                                               *)
(***************************************************************************)
KeyboardCommands ==
    << <<128, 2, "Reset">>, <<7, 2, "MouseAction">>, <<8, 1, "RelMouseMode">>,
       <<9, 5, "AbsMouseMode">>, <<10, 3, "MouseCursorKeycodes">>,
       <<11, 3, "SetMouseThreshold">>, <<12, 3, "SetMouseScale">>,
       <<13, 1, "ReadAbsMousePos">>, <<14, 6, "SetInternalMousePos">>,
       <<15, 1, "SetYAxisDown">>, <<16, 1, "SetYAxisUp">>,
       <<17, 1, "StartKeyboardTransfer">>, <<18, 1, "TurnMouseOff">>,
       <<19, 1, "StopKeyboardTransfer">>, <<20, 1, "ReturnJoystickAuto">>,
       <<21, 1, "StopJoystick">>, <<22, 1, "ReturnJoystick">>,
       <<23, 2, "SetJoystickMonitoring">>, <<24, 1, "SetJoystickFireDuration">>,
       <<25, 7, "SetCursorForJoystick">>, <<26, 1, "DisableJoysticks">>,
       <<27, 7, "SetClock">>, <<28, 1, "ReadClock">>, <<32, 4, "LoadMemory">>,
       <<33, 3, "ReadMemory">>, <<34, 3, "Execute">>,
       <<135, 1, "ReportMouseAction">>, <<136, 1, "ReportMouseMode">>,
       <<137, 1, "ReportMouseMode">>, <<138, 1, "ReportMouseMode">>,
       <<139, 1, "ReportMouseThreshold">>, <<140, 1, "ReportMouseScale">>,
       <<143, 1, "ReportMouseVertical">>, <<144, 1, "ReportMouseVertical">>,
       <<146, 1, "ReportMouseAvailability">>, <<148, 1, "ReportJoystickMode">>,
       <<149, 1, "ReportJoystickMode">>, <<153, 1, "ReportJoystickMode">>,
       <<154, 1, "ReportJoystickAvailability">> >>

\* KeyboardCommands[i].pCallFunction()
pCallFunction(S, fn, joyb) ==
    CASE fn = "Reset" -> IKBD_Cmd_Reset(S)
      [] fn = "MouseAction" -> IKBD_Cmd_MouseAction(S)
      [] fn = "RelMouseMode" -> IKBD_Cmd_RelMouseMode(S)
      [] fn = "AbsMouseMode" -> IKBD_Cmd_AbsMouseMode(S)
      [] fn = "MouseCursorKeycodes" -> IKBD_Cmd_MouseCursorKeycodes(S)
      [] fn = "SetMouseThreshold" -> IKBD_Cmd_SetMouseThreshold(S)
      [] fn = "SetMouseScale" -> IKBD_Cmd_SetMouseScale(S)
      [] fn = "ReadAbsMousePos" -> IKBD_Cmd_ReadAbsMousePos(S)
      [] fn = "SetInternalMousePos" -> IKBD_Cmd_SetInternalMousePos(S)
      [] fn = "SetYAxisDown" -> IKBD_Cmd_SetYAxisDown(S)
      [] fn = "SetYAxisUp" -> IKBD_Cmd_SetYAxisUp(S)
      [] fn = "StartKeyboardTransfer" -> IKBD_Cmd_StartKeyboardTransfer(S)
      [] fn = "TurnMouseOff" -> IKBD_Cmd_TurnMouseOff(S)
      [] fn = "StopKeyboardTransfer" -> IKBD_Cmd_StopKeyboardTransfer(S)
      [] fn = "ReturnJoystickAuto" -> IKBD_Cmd_ReturnJoystickAuto(S, joyb)
      [] fn = "StopJoystick" -> IKBD_Cmd_StopJoystick(S)
      [] fn = "ReturnJoystick" -> IKBD_Cmd_ReturnJoystick(S)
      [] fn = "SetJoystickMonitoring" -> IKBD_Cmd_SetJoystickMonitoring(S)
      [] fn = "SetJoystickFireDuration" -> IKBD_Cmd_SetJoystickFireDuration(S)
      [] fn = "SetCursorForJoystick" -> IKBD_Cmd_SetCursorForJoystick(S)
      [] fn = "DisableJoysticks" -> IKBD_Cmd_DisableJoysticks(S)
      [] fn = "SetClock" -> IKBD_Cmd_SetClock(S)
      [] fn = "ReadClock" -> IKBD_Cmd_ReadClock(S)
      [] fn = "LoadMemory" -> IKBD_Cmd_LoadMemory(S)
      [] fn = "ReadMemory" -> IKBD_Cmd_ReadMemory(S)
      [] fn = "Execute" -> IKBD_Cmd_Execute(S)
      [] fn = "ReportMouseAction" -> IKBD_Cmd_ReportMouseAction(S)
      [] fn = "ReportMouseMode" -> IKBD_Cmd_ReportMouseMode(S)
      [] fn = "ReportMouseThreshold" -> IKBD_Cmd_ReportMouseThreshold(S)
      [] fn = "ReportMouseScale" -> IKBD_Cmd_ReportMouseScale(S)
      [] fn = "ReportMouseVertical" -> IKBD_Cmd_ReportMouseVertical(S)
      [] fn = "ReportMouseAvailability" -> IKBD_Cmd_ReportMouseAvailability(S)
      [] fn = "ReportJoystickMode" -> IKBD_Cmd_ReportJoystickMode(S)
      [] fn = "ReportJoystickAvailability" -> IKBD_Cmd_ReportJoystickAvailability(S)

\* the index of the first table entry at or after i whose Command is c, or 0
RECURSIVE FindCommand(_, _)
FindCommand(c, i) ==
    IF i > Len(KeyboardCommands) THEN 0
    ELSE IF KeyboardCommands[i][1] = c THEN i
    ELSE FindCommand(c, i + 1)

\* A faulty variant of StoreInputByte: the byte is stored even when the
\* buffer is full
StoreInputByte_unguarded(buf, aciabyte) == Append(buf, aciabyte)

\* "Write into our keyboard input buffer if it's not full yet"
StoreInputByte(buf, aciabyte) ==
    IF Len(buf) < SIZE_KEYBOARDINPUT_BUFFER THEN Append(buf, aciabyte) ELSE buf

\* A faulty variant of IKBD_RunKeyboardCommand: an unknown first byte stays
\* in the buffer
IKBD_RunKeyboardCommand_keepsUnknown(S, aciabyte, joyb) ==
    LET S1 == [S EXCEPT !.InputBuffer = StoreInputByte(@, aciabyte)]
        i  == FindCommand(S1.InputBuffer[1], 1)
    IN  IF i = 0 THEN S1
        ELSE IF KeyboardCommands[i][2] = Len(S1.InputBuffer)
        THEN [pCallFunction([S1 EXCEPT !.PauseOutput = FALSE], KeyboardCommands[i][3], joyb)
                 EXCEPT !.InputBuffer = <<>>, !.cmd = KeyboardCommands[i][1]]
        ELSE S1

\* A faulty variant of IKBD_RunKeyboardCommand: the buffer is not cleared
\* after the handler ran
IKBD_RunKeyboardCommand_keepsCommand(S, aciabyte, joyb) ==
    LET S1 == [S EXCEPT !.InputBuffer = StoreInputByte(@, aciabyte)]
        i  == FindCommand(S1.InputBuffer[1], 1)
    IN  IF i = 0 THEN [S1 EXCEPT !.InputBuffer = <<>>]
        ELSE IF KeyboardCommands[i][2] = Len(S1.InputBuffer)
        THEN [pCallFunction([S1 EXCEPT !.PauseOutput = FALSE], KeyboardCommands[i][3], joyb)
                 EXCEPT !.cmd = KeyboardCommands[i][1]]
        ELSE S1

\* IKBD_RunKeyboardCommand; cmd records the opcode whose handler ran
IKBD_RunKeyboardCommand(S, aciabyte, joyb) ==
    LET S1 == [S EXCEPT !.InputBuffer = StoreInputByte(@, aciabyte)]
        i  == FindCommand(S1.InputBuffer[1], 1)
    IN  IF i = 0 THEN [S1 EXCEPT !.InputBuffer = <<>>]
        ELSE IF KeyboardCommands[i][2] = Len(S1.InputBuffer)
        THEN [pCallFunction([S1 EXCEPT !.PauseOutput = FALSE], KeyboardCommands[i][3], joyb)
                 EXCEPT !.InputBuffer = <<>>, !.cmd = KeyboardCommands[i][1]]
        ELSE S1

\* A faulty variant of IKBD_Process_RDR: the custom mode is not tested
IKBD_Process_RDR_noExe(S, RDR, joyb) ==
    IF S.MemoryLoad.Left = 0 THEN IKBD_RunKeyboardCommand(S, RDR, joyb)
    ELSE IKBD_LoadMemoryByte(S, RDR)

\* IKBD_Process_RDR
IKBD_Process_RDR(S, RDR, joyb) ==
    IF S.ExeMode /\ S.pWrite # "none" THEN CallWriteHandler(S, RDR)
    ELSE IF S.MemoryLoad.Left = 0 THEN IKBD_RunKeyboardCommand(S, RDR, joyb)
    ELSE IKBD_LoadMemoryByte(S, RDR)


(***************************************************************************)
(* The entry points as actions.  v4sa_machine_init calls IKBD_Init and     *)
(* then IKBD_Reset(true).                                                  *)
(***************************************************************************)
Init ==
    LET S == IKBD_Reset(StaticInit, TRUE)
    IN  /\ MouseMode = S.MouseMode
        /\ JoystickMode = S.JoystickMode
        /\ Abs = S.Abs
        /\ Mouse = S.Mouse
        /\ Joy = S.Joy
        /\ PauseOutput = S.PauseOutput
        /\ InputBuffer = S.InputBuffer
        /\ Buttons = S.Buttons
        /\ bMouseDisabled = S.bMouseDisabled
        /\ bJoystickDisabled = S.bJoystickDisabled
        /\ bDuringResetCriticalTime = S.bDuringResetCriticalTime
        /\ bBothMouseAndJoy = S.bBothMouseAndJoy
        /\ bMouseEnabledDuringReset = S.bMouseEnabledDuringReset
        /\ ikbd_reset_counter = S.ikbd_reset_counter
        /\ Clock = S.Clock
        /\ MemoryLoad = S.MemoryLoad
        /\ pIKBD_CustomCodeHandler_Read = S.pRead
        /\ pIKBD_CustomCodeHandler_Write = S.pWrite
        /\ IKBD_ExeMode = S.ExeMode
        /\ ScanCodeState = S.ScanCodeState
        /\ mem = S.mem
        /\ joypad_input_state = S.joypad_input_state
        /\ mouseb_old = S.mouseb_old
        /\ ChaosAD = S.ChaosAD
        /\ AudioSculpture = S.AudioSculpture
        /\ out = <<>>
        /\ lastOp = [op |-> "init", arg |-> 1, cmd |-> -1, reads |-> 0, boot |-> TRUE,
                    was |-> "none",
                    again |-> FALSE]
        /\ hist = [ticks |-> 0, off |-> {}, loads |-> 0, set |-> <<>>, ticked |-> FALSE,
                   rel |-> FALSE, asked |-> <<>>]
        /\ host = 0

\* the Load Memory commands counted since power-on
MaxLoads == 1

\* the history after a call that ended in S
Note(S, isTick) ==
    LET loads == IF S.cmd = 32 /\ hist.loads < MaxLoads THEN hist.loads + 1 ELSE hist.loads
        ticked == hist.ticked \/ (isTick /\ hist.set # <<>>)
    IN  IF S.boot THEN [ticks |-> 0, off |-> {}, loads |-> loads,
                        set |-> hist.set, ticked |-> ticked, rel |-> FALSE, asked |-> <<>>]
        ELSE [ticks |-> IF isTick /\ hist.ticks <= RESET_TICKS THEN hist.ticks + 1 ELSE hist.ticks,
              off   |-> IF S.cmd \in {18, 26} THEN hist.off \cup {S.cmd} ELSE hist.off,
              loads |-> loads, set |-> hist.set, ticked |-> ticked,
              rel   |-> S.bDuringResetCriticalTime /\ (hist.rel \/ S.cmd = 8),
              asked |-> LET now == << S.Buttons.bLButtonDown # 0, S.Buttons.bRButtonDown # 0 >>
                        IN  IF S.cmd = 13 THEN now
                            ELSE IF Len(hist.asked) = 2 /\ (S.cmd = 7 \/ now # hist.asked)
                            THEN <<FALSE>>
                            ELSE hist.asked]

\* both nibbles of v are decimal digits
PackedBCD(v) == BitAnd(v, 15) <= 9 /\ BitAnd(v, 240) <= 144

\* the six parameter bytes of a Set clock command that ends with the byte b
SetClockBytes(b) == SubSeq(InputBuffer, 2, 6) \o <<b>>

\* the history after the byte b made the call end in S: a Set clock command
\* of six packed-BCD bytes is remembered, any other Set clock is forgotten
NoteSet(S, b) ==
    IF S.cmd = 27
    THEN [Note(S, FALSE) EXCEPT
             !.set = IF \A i \in 1..6 : PackedBCD(SetClockBytes(b)[i])
                     THEN SetClockBytes(b) ELSE <<>>,
             !.ticked = FALSE]
    ELSE Note(S, FALSE)

\* v4sa_ikbd_writeb: the host writes the byte b; joyb is what the joystick
\* registers read during the call, h the image the host is then uploading
Submit(b, joyb, h) ==
    \E S \in {IKBD_Process_RDR(Cur, b, joyb)} :
        /\ Becomes(S)
        /\ lastOp' = [op |-> "submit", arg |-> b, cmd |-> S.cmd, reads |-> S.reads,
                      boot |-> S.boot,
                      was |-> pIKBD_CustomCodeHandler_Write,
                      again |-> S.cmd # -1 /\ S.cmd = lastOp.cmd]
        /\ hist' = NoteSet(S, b)
        /\ host' = IF S.boot THEN 0 ELSE h

\* IKBD_Process_RDR called for each byte of bytes in turn: the first half of
\* the bytes, then the second half.  reads is never negative: the test has
\* the state after the first half computed before the second half starts.
RECURSIVE Process_RDR_all(_, _, _)
Process_RDR_all(S, bytes, joyb) ==
    IF bytes = <<>> THEN S
    ELSE IF Len(bytes) = 1 THEN IKBD_Process_RDR(S, bytes[1], joyb)
    ELSE LET h == Len(bytes) \div 2
             T == Process_RDR_all(S, SubSeq(bytes, 1, h), joyb)
         IN  IF T.reads >= 0
             THEN Process_RDR_all(T, SubSeq(bytes, h + 1, Len(bytes)), joyb)
             ELSE T

\* the host writes the bytes back to back, with no other call in between
SubmitAll(bytes, joyb, h) ==
    \E S \in {Process_RDR_all(Cur, bytes, joyb)} :
        /\ Becomes(S)
        /\ lastOp' = [op |-> "submit", arg |-> bytes[Len(bytes)], cmd |-> S.cmd,
                      reads |-> S.reads, boot |-> S.boot,
                      was |-> pIKBD_CustomCodeHandler_Write,
                      again |-> S.cmd # -1 /\ S.cmd = lastOp.cmd]
        /\ hist' = Note(S, FALSE)
        /\ host' = IF S.boot THEN 0 ELSE h

\* one call of IKBD_SendAutoKeyboardCommands with the live inputs in
Tick(in) ==
    \E S \in {IKBD_SendAutoKeyboardCommands(Cur, in.mx, in.my, in.mb, in.mw, in.joyb)} :
        /\ Becomes(S)
        /\ lastOp' = [op |-> "tick", arg |-> 0, cmd |-> -1, reads |-> S.reads, boot |-> S.boot,
                      was |-> pIKBD_CustomCodeHandler_Write,
                      again |-> FALSE]
        /\ hist' = Note(S, TRUE)
        /\ host' = IF S.boot THEN 0 ELSE host

\* one call of IKBD_PressSTKey
OnKeyEvent(ScanCode) ==
    \E S \in {IKBD_PressSTKey(Cur, ScanCode)} :
        /\ Becomes(S)
        /\ lastOp' = [op |-> "key", arg |-> ScanCode, cmd |-> -1, reads |-> S.reads,
                      boot |-> S.boot,
                      was |-> pIKBD_CustomCodeHandler_Write,
                      again |-> FALSE]
        /\ hist' = Note(S, FALSE)
        /\ host' = IF S.boot THEN 0 ELSE host

\* one call of IKBD_Reset
Reset(bCold) ==
    \E S \in {IKBD_Reset(Cur, bCold)} :
        /\ Becomes(S)
        /\ lastOp' = [op |-> "reset", arg |-> IF bCold THEN 1 ELSE 0, cmd |-> -1,
                      reads |-> 0, boot |-> S.boot,
                      was |-> pIKBD_CustomCodeHandler_Write,
                      again |-> FALSE]
        /\ hist' = IF bCold THEN [Note(S, FALSE) EXCEPT !.set = <<>>, !.ticked = FALSE]
                    ELSE Note(S, FALSE)
        /\ host' = 0

\* one call of IKBD_UpdateClockOnVBL
UpdateClockOnVBL ==
    \E S \in {IKBD_UpdateClockOnVBL(Cur)} :
        /\ Becomes(S)
        /\ lastOp' = [op |-> "vbl", arg |-> 0, cmd |-> -1, reads |-> S.reads, boot |-> S.boot,
                      was |-> pIKBD_CustomCodeHandler_Write,
                      again |-> FALSE]
        /\ hist' = [Note(S, FALSE) EXCEPT !.ticked = hist.set # <<>>]
        /\ host' = IF S.boot THEN 0 ELSE host

NoJoy == <<0, 0>>

(***************************************************************************)
(* Spec: the reporting modes.  The host sends the mode commands, Pause,    *)
(* Resume, the Reset command and an unknown opcode; the mouse moves left;  *)
(* the space key goes down and up.                                         *)
(***************************************************************************)
ModeOpcodes == {128, 8, 18, 19, 20, 26, 17, 0}

ModeBytes == IF InputBuffer = <<>> THEN ModeOpcodes ELSE {1, 0}

ModeTicks == { [mx |-> x, my |-> 0, mb |-> 0, mw |-> 0, joyb |-> NoJoy] : x \in {0, -1} }

ModeKeys == {57, 185}

Next ==
    \/ \E b \in ModeBytes : Submit(b, NoJoy, 0)
    \/ \E in \in ModeTicks : Tick(in)
    \/ \E k \in ModeKeys : OnKeyEvent(k)
    \/ \E c \in BOOLEAN : Reset(c)

Spec == Init /\ [][Next]_vars


(***************************************************************************)
(* SpecFraming: the command framer.  The host sends the two longest        *)
(* commands (0x19, seven bytes; 0x0E, six bytes), the Reset command, a     *)
(* one-byte command and an unknown opcode.                                 *)
(***************************************************************************)
FramingOpcodes == {25, 14, 128, 13, 0}

FramingBytes ==
    IF InputBuffer = <<>> THEN FramingOpcodes
    ELSE IF Len(InputBuffer) = 1 THEN {0, 1, 128}
    ELSE {0}

StillTick == [mx |-> 0, my |-> 0, mb |-> 0, mw |-> 0, joyb |-> NoJoy]

NextFraming ==
    \/ \E b \in FramingBytes : Submit(b, NoJoy, 0)
    \/ Tick(StillTick)
    \/ \E c \in BOOLEAN : Reset(c)

SpecFraming == Init /\ [][NextFraming]_vars

(***************************************************************************)
(* SpecAbs: the absolute pointer.  The host sends 0x09 (maxima 100, 100)   *)
(* and 0x0E (X and Y each 0 or 256); the mouse moves far right and down,   *)
(* far left and up, or not at all.                                         *)
(***************************************************************************)
AbsOpcodes == {9, 14}

AbsBytes ==
    IF InputBuffer = <<>> THEN AbsOpcodes
    ELSE IF InputBuffer[1] = 9 THEN (IF Len(InputBuffer) \in {2, 4} THEN {100} ELSE {0})
    ELSE IF Len(InputBuffer) \in {2, 4} THEN {0, 1}
    ELSE {0}

FarMove == 400

AbsTicks ==
    { [mx |-> d, my |-> d, mb |-> 0, mw |-> 0, joyb |-> NoJoy] : d \in {0, FarMove, -FarMove} }

NextAbs ==
    \/ \E b \in AbsBytes : Submit(b, NoJoy, 0)
    \/ \E in \in AbsTicks : Tick(in)
    \/ \E c \in BOOLEAN : Reset(c)

SpecAbs == Init /\ [][NextAbs]_vars


(***************************************************************************)
(* SpecCustom: the custom-program layer.  The host waits for the ROM to    *)
(* finish booting, then sends Load Memory, Execute and the Reset command.  *)
(* The load data is the 4-byte load stage of a registered program or four  *)
(* bytes that match none (they are opcodes of standard commands), sent to  *)
(* an unmapped address.  After Execute the host uploads the main image of  *)
(* a registered program (the first byte, then the rest back to back) or    *)
(* zeros (byte by byte), and then talks to the program.  It sends at most   *)
(* MaxLoads Load Memory commands.                                          *)
(* host is the image chosen: 1..6 index the registry, 0 is the junk.       *)
(***************************************************************************)
MaxJunk == 8

MaxChaosBytes == 1

\* a 4-byte message for each load-stage checksum of the registry
LoadImage(p) ==
    CASE p = 1 -> <<2, 57, 255, 149>>
      [] p = 2 -> <<1, 182, 12, 42>>
      [] p = 3 -> <<1, 52, 247, 174>>
      [] p = 4 -> <<3, 116, 34, 234>>
      [] p = 5 -> <<216, 135, 20, 40>>
      [] OTHER -> <<18, 19, 18, 19>>

\* a message of MainProgNbBytes bytes for each main-program checksum of the
\* registry: four bytes, then zeros
MainHead(p) ==
    CASE p = 1 -> <<12, 21, 177, 63>>
      [] p = 2 -> <<172, 77, 148, 113>>
      [] p = 3 -> <<183, 143, 53, 190>>
      [] p = 4 -> <<234, 178, 87, 201>>
      [] p = 5 -> <<108, 144, 152, 23>>
      [] p = 6 -> <<212, 20, 198, 253>>
      [] OTHER -> <<0, 0, 0, 0>>

MainByte(p, k) == IF k <= 4 THEN MainHead(p)[k] ELSE 0

MainLen(p) == IF p = 0 THEN MaxJunk ELSE CustomCodeDefinitions[p].MainProgNbBytes

\* the main image of p without its first byte
MainRest(p) == [k \in 1..(MainLen(p) - 1) |-> MainByte(p, k + 1)]

\* what the host says to the running program
SteadyBytes ==
    CASE pIKBD_CustomCodeHandler_Write = "FroggiesMenu_Write" -> {1, 4, 128}
      [] pIKBD_CustomCodeHandler_Write = "ChaosAD_Write" ->
             IF ChaosAD.IgnoreNb + MaxChaosBytes > 8 THEN {8} ELSE {}
      [] pIKBD_CustomCodeHandler_Write = "AudioSculpture_Write" -> {66, 128}
      [] OTHER -> {32}

\* the command bytes of the host, by the place in the command
CustomBytes ==
    IF InputBuffer = <<>> THEN {34, 128} \cup (IF hist.loads < MaxLoads THEN {32} ELSE {})
    ELSE IF InputBuffer[1] = 128 THEN {1}
    ELSE IF InputBuffer[1] = 34 THEN {0}
    ELSE IF Len(InputBuffer) < 3 THEN {0}
    ELSE {0, 4}

BootStage == IKBD_ExeMode /\ pIKBD_CustomCodeHandler_Write = "CommonBoot"

\* the pairs <<byte, image>> the host may send next
CustomChoices ==
    IF ikbd_reset_counter # 0 THEN {}
    ELSE IF BootStage
    THEN LET k == MemoryLoad.ExeNbBytes + 1
         IN  IF k = 1 THEN { <<MainByte(p, 1), p>> : p \in 0..NbCustomCode }
             ELSE IF host = 0 /\ k <= MainLen(host) THEN { <<MainByte(host, k), host>> }
             ELSE {}
    ELSE IF IKBD_ExeMode /\ pIKBD_CustomCodeHandler_Write # "none"
    THEN { <<b, host>> : b \in SteadyBytes }
    ELSE IF MemoryLoad.Left # 0
    THEN LET k == (MemoryLoad.Total - MemoryLoad.Left) + 1
         IN  IF k = 1 THEN { <<LoadImage(q)[1], q>> : q \in 0..5 }
             ELSE { <<LoadImage(host)[k], host>> }
    ELSE { <<b, 0>> : b \in CustomBytes }

\* the images the host may finish uploading in one go
CustomRests ==
    IF ikbd_reset_counter = 0 /\ BootStage /\ MemoryLoad.ExeNbBytes = 1 /\ host # 0
    THEN {host} ELSE {}

NextCustom ==
    \/ \E c \in CustomChoices : Submit(c[1], NoJoy, c[2])
    \/ \E q \in CustomRests : SubmitAll(MainRest(q), NoJoy, q)
    \/ Tick(StillTick)
    \/ OnKeyEvent(185)
    \/ \E c \in BOOLEAN : Reset(c)

SpecCustom == Init /\ [][NextCustom]_vars

(***************************************************************************)
(* SpecLoad: Load Memory.  The host loads 0, 1 or 2 bytes to an address of *)
(* the joypad tables (0xB000) or to an unmapped one (0x0000); the data are *)
(* bytes that the dispatcher would take as commands (0x12, and 0x80 0x01). *)
(* Around the load it sends Disable Mouse and the Reset command.  It waits *)
(* for the ROM to finish booting before it sends anything.                 *)
(***************************************************************************)
LoadBytes ==
    IF ikbd_reset_counter # 0 THEN {}
    ELSE IF MemoryLoad.Left # 0 THEN {18, 128, 1}
    ELSE IF InputBuffer = <<>> THEN {18, 128} \cup (IF hist.loads < MaxLoads THEN {32} ELSE {})
    ELSE IF InputBuffer[1] = 128 THEN {1}
    ELSE IF Len(InputBuffer) = 1 THEN {176, 0}
    ELSE IF Len(InputBuffer) = 2 THEN {0}
    ELSE {0, 1, 2}

NextLoad ==
    \/ \E b \in LoadBytes : Submit(b, NoJoy, 0)
    \/ Tick(StillTick)
    \/ OnKeyEvent(185)
    \/ \E c \in BOOLEAN : Reset(c)

SpecLoad == Init /\ [][NextLoad]_vars

(***************************************************************************)
(* SpecUnmatched: loads that match and loads that do not.  The host waits  *)
(* for the ROM to finish booting, then sends Load Memory of four bytes to  *)
(* an unmapped address, Execute and the Reset command, in any order and    *)
(* any number of times.  The load data is the load stage of the first      *)
(* registry entry (host = 1) or four bytes that match none (host = 0).  In *)
(* the boot stage the host sends up to MaxJunk zeros.                      *)
(***************************************************************************)
UnmatchedBytes ==
    IF InputBuffer = <<>> THEN {32, 34, 128}
    ELSE IF InputBuffer[1] = 128 THEN {1}
    ELSE IF InputBuffer[1] = 34 THEN {0}
    ELSE IF Len(InputBuffer) < 3 THEN {0}
    ELSE {4}

UnmatchedChoices ==
    IF ikbd_reset_counter # 0 THEN {}
    ELSE IF BootStage
    THEN IF MemoryLoad.ExeNbBytes < MaxJunk THEN { <<0, 0>> } ELSE {}
    ELSE IF MemoryLoad.Left # 0
    THEN LET k == (MemoryLoad.Total - MemoryLoad.Left) + 1
         IN  IF k = 1 THEN { <<LoadImage(q)[1], q>> : q \in {0, 1} }
             ELSE { <<LoadImage(host)[k], host>> }
    ELSE { <<b, 0>> : b \in UnmatchedBytes }

NextUnmatched ==
    \/ \E c \in UnmatchedChoices : Submit(c[1], NoJoy, c[2])
    \/ Tick(StillTick)
    \/ OnKeyEvent(185)
    \/ \E c \in BOOLEAN : Reset(c)

SpecUnmatched == Init /\ [][NextUnmatched]_vars

(***************************************************************************)
(* SpecRead: ticks and key events while a program with a read handler      *)
(* runs.  The host does not wait for the ROM to boot: it may set joystick  *)
(* monitoring (0x17), then loads and starts the Transbeauce 2 program      *)
(* (entry 2) or the colour Audio Sculpture program (entry 5), and sends    *)
(* the magic byte to Audio Sculpture.  Ticks come with and without a step  *)
(* of the wheel; the space key is pressed and released.                    *)
(***************************************************************************)
ReadPrograms == {2, 5}

ReadBytes ==
    IF InputBuffer = <<>> THEN {23, 34} \cup (IF hist.loads = 0 THEN {32} ELSE {})
    ELSE IF InputBuffer[1] = 23 THEN {1}
    ELSE IF InputBuffer[1] = 34 THEN {0}
    ELSE IF Len(InputBuffer) < 3 THEN {0}
    ELSE {4}

ReadChoices ==
    IF BootStage
    THEN IF MemoryLoad.ExeNbBytes = 0 THEN { <<MainByte(p, 1), p>> : p \in ReadPrograms }
         ELSE {}
    ELSE IF IKBD_ExeMode /\ pIKBD_CustomCodeHandler_Write # "none"
    THEN IF pIKBD_CustomCodeHandler_Write = "AudioSculpture_Write" THEN { <<66, host>> } ELSE {}
    ELSE IF MemoryLoad.Left # 0
    THEN LET k == (MemoryLoad.Total - MemoryLoad.Left) + 1
         IN  IF k = 1 THEN { <<LoadImage(q)[1], q>> : q \in ReadPrograms }
             ELSE { <<LoadImage(host)[k], host>> }
    ELSE { <<b, 0>> : b \in ReadBytes }

ReadRests ==
    IF BootStage /\ MemoryLoad.ExeNbBytes = 1 /\ host # 0 THEN {host} ELSE {}

ReadTicks == { [mx |-> 0, my |-> 0, mb |-> 0, mw |-> w, joyb |-> NoJoy] : w \in {0, 1} }

NextRead ==
    \/ \E c \in ReadChoices : Submit(c[1], NoJoy, c[2])
    \/ \E q \in ReadRests : SubmitAll(MainRest(q), NoJoy, q)
    \/ \E in \in ReadTicks : Tick(in)
    \/ \E k \in {57, 185} : OnKeyEvent(k)
    \/ \E c \in BOOLEAN : Reset(c)

SpecRead == Init /\ [][NextRead]_vars

(***************************************************************************)
(* SpecReport: the report commands.  Once the ROM has booted the host sets *)
(* the pointer mode (0x08, 0x09 with maxima 257, 0x0A with steps 3, 0x12), *)
(* the joystick mode (0x14, 0x17, 0x1A), turns the Y axis (0x0F), pauses   *)
(* the output (0x13), and sends the thirteen report opcodes.               *)
(***************************************************************************)
ReportOpcodes == {135, 136, 137, 138, 139, 140, 143, 144, 146, 148, 149, 153, 154}

ReportSetters == {8, 9, 10, 18, 20, 23, 26, 15, 19}

ReportBytes ==
    IF InputBuffer = <<>> THEN ReportOpcodes \cup ReportSetters
    ELSE IF InputBuffer[1] = 10 THEN {3}
    ELSE {1}

ReportChoices == IF ikbd_reset_counter # 0 THEN {} ELSE ReportBytes

NextReport ==
    \/ \E b \in ReportChoices : Submit(b, NoJoy, 0)
    \/ Tick(StillTick)
    \/ OnKeyEvent(185)
    \/ \E c \in BOOLEAN : Reset(c)

SpecReport == Init /\ [][NextReport]_vars

(***************************************************************************)
(* SpecClock: the clock.  Once the ROM has booted the host sets the clock  *)
(* (0x1B; for the year, the hour and the seconds a packed-BCD value or a   *)
(* value with a nibble above 9), reads it (0x1C), sends the Reset command  *)
(* and the relative-pointer command.  With the clock at ClockStamp it may  *)
(* upload and start the Froggies program (entry 1) or the colour Audio     *)
(* Sculpture program (entry 5) and make it leave: 0x80 to Froggies, the    *)
(* magic byte and two reads for Audio Sculpture.                           *)
(***************************************************************************)
ClockParams ==
    << {153, 162}, {18}, {49}, {48, 10}, {89}, {87, 15} >>

ClockStamp == <<153, 18, 49, 48, 89, 87>>

ClockPrograms == {1, 5}

ClockBytes ==
    IF InputBuffer = <<>>
    THEN {27, 28, 128, 8}
             \cup (IF Clock = ClockStamp /\ hist.loads < MaxLoads THEN {32} ELSE {})
             \cup (IF pIKBD_CustomCodeHandler_Write # "none" THEN {34} ELSE {})
    ELSE IF InputBuffer[1] = 27 THEN ClockParams[Len(InputBuffer)]
    ELSE IF InputBuffer[1] = 128 THEN {1}
    ELSE IF InputBuffer[1] = 34 THEN {0}
    ELSE IF Len(InputBuffer) < 3 THEN {0}
    ELSE {4}

ClockChoices ==
    IF ikbd_reset_counter # 0 THEN {}
    ELSE IF BootStage
    THEN IF MemoryLoad.ExeNbBytes = 0 THEN { <<MainByte(p, 1), p>> : p \in ClockPrograms }
         ELSE {}
    ELSE IF IKBD_ExeMode /\ pIKBD_CustomCodeHandler_Write # "none"
    THEN IF pIKBD_CustomCodeHandler_Write = "AudioSculpture_Write" THEN { <<66, host>> }
         ELSE { <<128, host>> }
    ELSE IF MemoryLoad.Left # 0
    THEN LET k == (MemoryLoad.Total - MemoryLoad.Left) + 1
         IN  IF k = 1 THEN { <<LoadImage(q)[1], q>> : q \in ClockPrograms }
             ELSE { <<LoadImage(host)[k], host>> }
    ELSE { <<b, 0>> : b \in ClockBytes }

NextClock ==
    \/ \E c \in ClockChoices : Submit(c[1], NoJoy, c[2])
    \/ \E q \in CustomRests : SubmitAll(MainRest(q), NoJoy, q)
    \/ Tick(StillTick)
    \/ UpdateClockOnVBL
    \/ OnKeyEvent(185)
    \/ \E c \in BOOLEAN : Reset(c)

SpecClock == Init /\ [][NextClock]_vars

(***************************************************************************)
(* SpecOpcodes: opcodes and parameter bytes.  Once the ROM has booted the  *)
(* host sends bytes that are no opcode (0x00, 0x1D, 0x23, 0xFF), the       *)
(* commands 0x09 (five bytes) and 0x19 (seven bytes) with the opcodes 0x80 *)
(* and 0x12 as parameter bytes, the Reset command with the parameter 0x01  *)
(* or 0x12, and the one-byte commands 0x12, 0x0D and 0x13.                 *)
(***************************************************************************)
NoOpcodes == {0, 29, 35, 255}

OpcodeFirsts == {9, 25, 128, 18, 13, 19}

OpcodeBytes ==
    IF InputBuffer = <<>> THEN NoOpcodes \cup OpcodeFirsts
    ELSE IF InputBuffer[1] = 128 THEN {1, 18}
    ELSE IF Len(InputBuffer) <= 2 THEN {128, 18}
    ELSE {1}

OpcodeChoices == IF ikbd_reset_counter # 0 THEN {} ELSE OpcodeBytes

NextOpcodes ==
    \/ \E b \in OpcodeChoices : Submit(b, NoJoy, 0)
    \/ Tick(StillTick)
    \/ \E c \in BOOLEAN : Reset(c)

SpecOpcodes == Init /\ [][NextOpcodes]_vars

(***************************************************************************)
(* SpecJoy: the joysticks and the mouse buttons.  After the boot delay the *)
(* host selects the joystick and pointer modes and the button action; the  *)
(* ticks sample the two joystick registers and the left mouse button.  The *)
(* mouse never moves.                                                      *)
(***************************************************************************)
JoyBytes ==
    IF ikbd_reset_counter # 0 THEN {}
    ELSE IF InputBuffer = <<>> THEN {20, 23, 18, 8, 7, 10}
    ELSE IF InputBuffer[1] = 7 THEN {4, 0}
    ELSE {1}

\* register values: nothing; joypad 1 button 2 (fire and up); joypad 0
\* button 0 (fire) with joypad 1 button 4 (a key code)
JoyTicks == { [mx |-> 0, my |-> 0, mb |-> b, mw |-> 0, joyb |-> j] :
                  b \in {0, 2}, j \in {<<0, 0>>, <<0, 4>>, <<1, 16>>} }

NextJoy ==
    \/ \E b \in JoyBytes : Submit(b, NoJoy, 0)
    \/ \E in \in JoyTicks : Tick(in)
    \/ \E c \in BOOLEAN : Reset(c)

SpecJoy == Init /\ [][NextJoy]_vars

(***************************************************************************)
(* SpecRel: the relative pointer packets.  After the boot delay the host   *)
(* selects the pointer mode and the joystick mode; the thresholds stay 1; the *)
(* ticks carry a movement and the left button.                             *)
(***************************************************************************)
RelBytes ==
    IF ikbd_reset_counter # 0 THEN {}
    ELSE IF InputBuffer = <<>> THEN {8, 20, 23}
    ELSE {1}

RelTicks == { [mx |-> x, my |-> y, mb |-> b, mw |-> 0, joyb |-> NoJoy] :
                  x \in {0, 5}, y \in {0, -127}, b \in {0, 2} }

NextRel ==
    \/ \E b \in RelBytes : Submit(b, NoJoy, 0)
    \/ \E in \in RelTicks : Tick(in)
    \/ \E c \in BOOLEAN : Reset(c)

SpecRel == Init /\ [][NextRel]_vars

(***************************************************************************)
(* SpecMap: the memory map at the ends of its ranges.  After the boot      *)
(* delay the host loads one byte to 0xB010, 0xB020, 0xB080, 0xA010, 0xA020 *)
(* or 0xA080, and reads the six bytes from 0xB00B, 0xB070, 0xA00B or       *)
(* 0xA070.                                                                 *)
(***************************************************************************)
MapBytes ==
    IF ikbd_reset_counter # 0 THEN {}
    ELSE IF MemoryLoad.Left # 0 THEN {7}
    ELSE IF InputBuffer = <<>> THEN {32, 33}
    ELSE IF Len(InputBuffer) = 1 THEN {176, 160}
    ELSE IF Len(InputBuffer) = 3 THEN {1}
    ELSE IF InputBuffer[1] = 32 THEN {16, 32, 128}
    ELSE {11, 112}

NextMap ==
    \/ \E b \in MapBytes : Submit(b, NoJoy, 0)
    \/ Tick(StillTick)
    \/ \E c \in BOOLEAN : Reset(c)

SpecMap == Init /\ [][NextMap]_vars

(***************************************************************************)
(* SpecCrc: the running checksum of a load.  After the boot delay the host *)
(* loads nine bytes to the unmapped address 0: the ASCII digits 1 to 9,    *)
(* or 0x00, 0x80 or 0xFF in place of the first and of the second digit.    *)
(***************************************************************************)
CrcChoices ==
    IF ikbd_reset_counter # 0 THEN {}
    ELSE IF MemoryLoad.Left # 0
    THEN LET k == (MemoryLoad.Total - MemoryLoad.Left) + 1
         IN  {48 + k} \cup (IF k <= 2 THEN {0, 128, 255} ELSE {})
    ELSE IF InputBuffer = <<>> THEN {32}
    ELSE IF Len(InputBuffer) < 3 THEN {0}
    ELSE {9}

NextCrc ==
    \/ \E b \in CrcChoices : Submit(b, NoJoy, 0)
    \/ Tick(StillTick)
    \/ \E c \in BOOLEAN : Reset(c)

SpecCrc == Init /\ [][NextCrc]_vars

(***************************************************************************)
(* SpecBoth: the commands of the critical window.  The host does not wait  *)
(* for the boot delay: it sends 0x08, 0x0B 2 2, 0x12 and 0x14 at any time, *)
(* with both joysticks at rest or with fire on joypad 0 and fire and up on *)
(* joypad 1.                                                               *)
(***************************************************************************)
BothBytes == IF InputBuffer = <<>> THEN {8, 11, 18, 20} ELSE {2}

BothSticks == {<<0, 0>>, <<1, 4>>}

NextBoth ==
    \/ \E b \in BothBytes, j \in BothSticks : Submit(b, j, 0)
    \/ \E j \in BothSticks : Tick([StillTick EXCEPT !.joyb = j])
    \/ \E c \in BOOLEAN : Reset(c)

SpecBoth == Init /\ [][NextBoth]_vars

(***************************************************************************)
(* SpecAsk: Interrogate absolute position.  After the boot delay the host  *)
(* sends 0x0D, 0x07 (action 0, 1 or 2), 0x0E (position 257, 257) and 0x17; *)
(* the ticks carry the two mouse buttons.                                  *)
(***************************************************************************)
NextAsk ==
    \/ \E b \in (IF ikbd_reset_counter # 0 THEN {}
                 ELSE IF InputBuffer = <<>> THEN {13, 7, 14, 23}
                 ELSE IF InputBuffer[1] = 7 THEN {0, 1, 2}
                 ELSE {1}) : Submit(b, NoJoy, 0)
    \/ \E b \in {0, 1, 2} : Tick([StillTick EXCEPT !.mb = b])
    \/ \E c \in BOOLEAN : Reset(c)

SpecAsk == Init /\ [][NextAsk]_vars

(***************************************************************************)
(* SpecMove: far movements in the relative and the cursor-key pointer      *)
(* modes.  After the boot delay the host sends 0x0B and 0x0A, the first    *)
(* parameter 0, 1 or 200 and the second the same or 1; the mouse moves 300 *)
(* left and 200 down, or stands still with or without the left button.     *)
(***************************************************************************)
NextMove ==
    \/ \E b \in (IF ikbd_reset_counter # 0 THEN {}
                 ELSE IF InputBuffer = <<>> THEN {10, 11}
                 ELSE IF Len(InputBuffer) = 1 THEN {0, 1, 200}
                 ELSE {InputBuffer[2], 1}) : Submit(b, NoJoy, 0)
    \/ \E m \in {<<0, 0, 0>>, <<-300, 200, 0>>, <<0, 0, 2>>} :
           Tick([StillTick EXCEPT !.mx = m[1], !.my = m[2], !.mb = m[3]])
    \/ \E c \in BOOLEAN : Reset(c)

SpecMove == Init /\ [][NextMove]_vars

(***************************************************************************)
(* SpecClip: the absolute position under every setting.  After the boot    *)
(* delay the host sends 0x09 (maxima 100, 100), 0x0E (X and Y each 0 or    *)
(* 256), 0x0C (scales 0, 0 or 3, 3), 0x0F and 0x10; the mouse moves far    *)
(* left and down, far left and up, or not at all.                          *)
(***************************************************************************)
NextClip ==
    \/ \E b \in (IF ikbd_reset_counter # 0 THEN {}
                 ELSE IF InputBuffer = <<>> THEN {9, 12, 14, 15, 16}
                 ELSE IF InputBuffer[1] = 9
                      THEN (IF Len(InputBuffer) \in {2, 4} THEN {100} ELSE {0})
                 ELSE IF InputBuffer[1] = 12
                      THEN (IF Len(InputBuffer) = 1 THEN {0, 3} ELSE {InputBuffer[2]})
                 ELSE IF Len(InputBuffer) \in {2, 4} THEN {0, 1}
                 ELSE {0}) : Submit(b, NoJoy, 0)
    \/ \E y \in {0, FarMove, -FarMove} :
           Tick([StillTick EXCEPT !.mx = IF y = 0 THEN 0 ELSE -FarMove, !.my = y])
    \/ \E c \in BOOLEAN : Reset(c)

SpecClip == Init /\ [][NextClip]_vars

(***************************************************************************)
(* SpecAgain: a program run again.  Once the ROM has booted and while no   *)
(* program runs, the host uploads Chaos A.D. or Audio Sculpture in one go: *)
(* Load Memory with a 4-byte loader, Execute, the main image.  To Chaos    *)
(* A.D. it then writes one byte, to Audio Sculpture the magic byte; the    *)
(* engine is reset at any time.                                            *)
(***************************************************************************)
NextAgain ==
    \/ \E p \in (IF ikbd_reset_counter = 0 /\ ~IKBD_ExeMode /\ InputBuffer = <<>>
                 THEN {4, 5} ELSE {}) :
           SubmitAll(<<32, 0, 0, 4>> \o LoadImage(p) \o <<34, 0, 0>>
                         \o <<MainByte(p, 1)>> \o MainRest(p), NoJoy, p)
    \/ \E b \in (IF ~IKBD_ExeMode THEN {}
                 ELSE IF pIKBD_CustomCodeHandler_Write = "AudioSculpture_Write" THEN {66}
                 ELSE IF ChaosAD.IgnoreNb + MaxChaosBytes > 8 THEN {8}
                 ELSE {}) : Submit(b, NoJoy, host)
    \/ Tick(StillTick)
    \/ \E c \in BOOLEAN : Reset(c)

SpecAgain == Init /\ [][NextAgain]_vars

(***************************************************************************)
(* SpecStick: 0x14 after each pointer mode.  The host sends 0x08, 0x09     *)
(* (maxima 257), 0x0A (steps 1), 0x12, 0x14 and 0x1A, inside the critical  *)
(* window too; the mouse moves 5 to the left or not at all.                *)
(***************************************************************************)
NextStick ==
    \/ \E b \in (IF InputBuffer = <<>> THEN {8, 9, 10, 18, 20, 26} ELSE {1}) :
           Submit(b, NoJoy, 0)
    \/ \E x \in {0, -5} : Tick([StillTick EXCEPT !.mx = x])
    \/ \E c \in BOOLEAN : Reset(c)

SpecStick == Init /\ [][NextStick]_vars

(***************************************************************************)
(* Properties                                                              *)
(***************************************************************************)
InBounds ==
    /\ 0 <= Abs.X /\ Abs.X <= Abs.MaxX
    /\ 0 <= Abs.Y /\ Abs.Y <= Abs.MaxY

\* the last call was a tick that ran past the reset countdown
AutoReportTick == lastOp.op = "tick" /\ hist.ticks > RESET_TICKS

\* the input buffer filled up with zero bytes
FullBuffer ==
    InputBuffer \o [i \in 1..(SIZE_KEYBOARDINPUT_BUFFER - Len(InputBuffer)) |-> 0]

\* C1: the input buffer always holds between 0 and 8 bytes, and a byte that
\* arrives when the buffer is full is not stored: the framer, run on the
\* buffer filled up to 8 bytes, leaves it as it is or clears it.
C1_BufferBounded ==
    /\ Len(InputBuffer) \in 0..SIZE_KEYBOARDINPUT_BUFFER
    /\ \A b \in {1, 255} :
          IKBD_RunKeyboardCommand([Cur EXCEPT !.InputBuffer = FullBuffer], b, NoJoy).InputBuffer
              \in {FullBuffer, <<>>}

\* C1 witness: the longest command, one byte short of complete, is buffered
C1_LongestPartial ==
    /\ lastOp.op = "submit"
    /\ Len(InputBuffer) = 6
    /\ InputBuffer[1] = 25

\* C2 as stated: the absolute pointer is inside its bounds after every
\* operation, the commands 0x09 and 0x0E included.
C2_AlwaysInBounds == InBounds

\* C2 amended: the absolute pointer is inside its bounds after every boot of
\* the ROM and after every tick that runs past the reset countdown; 0x09 and
\* 0x0E store their arguments unclipped until that tick.
C2_InBoundsAfterUpdate == (lastOp.boot \/ AutoReportTick) => InBounds

\* C2 witness: a tick clipped both coordinates to maxima set by 0x09
C2_ClippedToNewMax ==
    /\ AutoReportTick
    /\ Abs.MaxX = 100 /\ Abs.X = 100
    /\ Abs.MaxY = 100 /\ Abs.Y = 100


\* fewer than 40 ticks have run since the last boot of the ROM
InWindow == hist.ticks < RESET_TICKS

Reenabled ==
    /\ MouseMode = AUTOMODE_MOUSEREL
    /\ JoystickMode = AUTOMODE_JOYSTICK
    /\ bBothMouseAndJoy

\* C3: when Disable joystick (0x1A) runs inside the critical window and
\* Disable pointer (0x12) ran earlier since the same reset, the pointer mode
\* is then Relative, the joystick mode Auto and the 'both' flag set.
C3_DisableBothInWindow ==
    (lastOp.op = "submit" /\ lastOp.cmd = 26 /\ 18 \in hist.off /\ InWindow) => Reenabled

\* C3 witness: 0x12 then 0x1A on the last tick of the window, both back on
C3_ReenabledAtWindowEnd ==
    /\ lastOp.op = "submit" /\ lastOp.cmd = 26
    /\ hist.off = {18, 26}
    /\ hist.ticks = RESET_TICKS - 1
    /\ Reenabled

\* C4 as stated: a disable command forces the re-enable exactly when the
\* other device's mode is Off as well and the engine is inside the window;
\* in every other case the disabled device stays Off and the other mode is
\* unchanged.
C4_ByCurrentModes ==
    [][ (lastOp'.op = "submit" /\ lastOp'.cmd \in {18, 26}) =>
          LET other  == IF lastOp'.cmd = 18 THEN JoystickMode ELSE MouseMode
              other2 == IF lastOp'.cmd = 18 THEN JoystickMode' ELSE MouseMode'
              mine2  == IF lastOp'.cmd = 18 THEN MouseMode' ELSE JoystickMode'
          IN  IF other = AUTOMODE_OFF /\ InWindow
              THEN Reenabled'
              ELSE mine2 = AUTOMODE_OFF /\ other2 = other ]_vars

\* C4 amended: a disable command forces the re-enable exactly when both
\* disable commands have run since the last reset (whatever the modes are
\* now) and the engine is inside the window; in every other case the
\* disabled device stays Off and the other mode and the 'both' flag are
\* unchanged.
C4_ByDisabledFlags ==
    [][ (lastOp'.op = "submit" /\ lastOp'.cmd \in {18, 26}) =>
          LET other  == IF lastOp'.cmd = 18 THEN JoystickMode ELSE MouseMode
              other2 == IF lastOp'.cmd = 18 THEN JoystickMode' ELSE MouseMode'
              mine2  == IF lastOp'.cmd = 18 THEN MouseMode' ELSE JoystickMode'
          IN  IF hist'.off = {18, 26} /\ InWindow
              THEN Reenabled'
              ELSE /\ mine2 = AUTOMODE_OFF /\ other2 = other
                   /\ bBothMouseAndJoy' = bBothMouseAndJoy ]_vars

\* C4 witness: 0x1A re-enabled both inside the window although the pointer
\* had been switched back on by 0x08 after its 0x12
C4_ReenabledThoughPointerOn ==
    /\ lastOp.op = "submit" /\ lastOp.cmd = 26
    /\ hist.off = {18, 26} /\ InWindow
    /\ bMouseEnabledDuringReset
    /\ Reenabled

\* C5 as stated: while output is paused no tick and no key event passes a
\* byte to the sink.
C5_PausedIsSilent ==
    (PauseOutput /\ lastOp.op \in {"tick", "key"}) => out = <<>>

\* the custom-execution phase is Standard, with nothing installed
Standard ==
    /\ ~IKBD_ExeMode
    /\ MemoryLoad.Left = 0
    /\ pIKBD_CustomCodeHandler_Read = "none"
    /\ pIKBD_CustomCodeHandler_Write = "none"

AudioSculptureReads == {"AudioSculpture_Color_Read", "AudioSculpture_Mono_Read"}

\* C7 as stated: the phase leaves Executing only in a submit or in a reset;
\* never in a tick or a key event.
C7_OnlySubmitOrReset ==
    [][ (IKBD_ExeMode /\ ~IKBD_ExeMode') => lastOp'.op \in {"submit", "reset"} ]_vars

\* C7 amended: the phase leaves Executing only by a boot of the ROM, which
\* comes in a submit whose write handler asks for it, in a reset, or, for the
\* two Audio Sculpture programs, in the tick or key event that makes the
\* second call of the read handler after the magic byte 0x42; for the other
\* four programs no tick and no key event leaves Executing.
C7_ExitsOfExecuting ==
    [][ (IKBD_ExeMode /\ ~IKBD_ExeMode') =>
            /\ lastOp'.boot
            /\ \/ lastOp'.op = "reset"
               \/ lastOp'.op = "submit" /\ lastOp'.cmd = -1
               \/ /\ lastOp'.op \in {"tick", "key"}
                  /\ pIKBD_CustomCodeHandler_Read \in AudioSculptureReads
                  /\ AudioSculpture.ASmagic
                  /\ AudioSculpture.ReadCount + lastOp'.reads >= 2 ]_vars

\* C7 witness: a tick made the second read of Audio Sculpture and the ROM
\* booted
C7_AudioSculptureLeftOnTick ==
    /\ lastOp.op = "tick"
    /\ lastOp.reads = 1
    /\ lastOp.boot
    /\ ~IKBD_ExeMode

\* C8: while the phase is Executing a submitted byte goes to the write handler
\* only: no standard command is dispatched, the input buffer is empty before
\* and after, no load is started, and the phase is left only if the handler
\* boots the ROM.
C8_WriteHandlerOnly ==
    [][ (IKBD_ExeMode /\ lastOp'.op = "submit") =>
            /\ lastOp'.cmd = -1
            /\ InputBuffer = <<>> /\ InputBuffer' = <<>>
            /\ MemoryLoad'.Left = 0
            /\ MemoryLoad'.Addr = MemoryLoad.Addr /\ MemoryLoad'.Total = MemoryLoad.Total
            /\ mem' = mem
            /\ IKBD_ExeMode' \/ lastOp'.boot ]_vars

\* C8 witness: 0x80 was given to the running Audio Sculpture program, which
\* runs on
C8_ResetByteToProgram ==
    /\ IKBD_ExeMode
    /\ lastOp.op = "submit" /\ lastOp.arg = 128
    /\ ~lastOp.boot
    /\ pIKBD_CustomCodeHandler_Write = "AudioSculpture_Write"

Written == { c \in DOMAIN mem' : c \notin DOMAIN mem \/ mem'[c] # mem[c] }

Dispatched ==
    LET buf == Append(InputBuffer, lastOp'.arg)
    IN  \/ lastOp'.cmd = -1 /\ InputBuffer' = buf
        \/ lastOp'.cmd = buf[1] /\ InputBuffer' = <<>>
        \/ lastOp'.cmd = -1 /\ InputBuffer' = <<>> /\ FindCommand(buf[1], 1) = 0

\* C11: when the last byte of a load arrives and the data match no registry
\* entry, both handlers are then cleared, whatever was installed before,
\* nothing is emitted and the phase is Standard; in Standard phase a submitted
\* byte goes to the dispatcher; Execute with no write handler installed emits
\* nothing and leaves the phase Standard.
C11_UnmatchedLoad ==
    [][ /\ (lastOp'.op = "submit" /\ MemoryLoad.Left = 1 /\ host = 0) =>
              /\ Standard'
              /\ out' = <<>>
              /\ InputBuffer' = <<>>
        /\ (lastOp'.op = "submit" /\ Standard) => Dispatched
        /\ (lastOp'.cmd = 34 /\ pIKBD_CustomCodeHandler_Write = "none") =>
              /\ Standard'
              /\ out' = <<>> ]_vars

\* C11 witness: a load that matched had installed the boot handler; the last
\* byte of a load that matches nothing came and no handler is installed
C11_EarlierHandlerCleared ==
    /\ lastOp.op = "submit" /\ lastOp.cmd = -1 /\ ~lastOp.boot
    /\ lastOp.was = "CommonBoot"
    /\ MemoryLoad.Total = 4 /\ MemoryLoad.Left = 0
    /\ Standard

\* the phase is Executing and a read handler is installed
ReadInstalled == IKBD_ExeMode /\ pIKBD_CustomCodeHandler_Read # "none"

\* C12 as stated: while a read handler is installed and the phase is
\* Executing, every tick calls the read handler and every key event calls it
\* once.
C12_ReadOnEveryEvent ==
    [][ ReadInstalled =>
            /\ lastOp'.op = "tick" => lastOp'.reads >= 1
            /\ lastOp'.op = "key" => lastOp'.reads = 1 ]_vars

\* C12 amended: while a read handler is installed and the phase is Executing,
\* a tick that comes during the reset countdown or in joystick mode Monitoring
\* does not call the read handler; every other tick calls it, and the byte
\* the Transbeauce 2 handler emits is the last byte of the tick.  A key event
\* in joystick mode Monitoring emits nothing and does not call the read
\* handler; every other key event emits the code first and then calls the
\* read handler once.
C12_ReadUnlessCountdownOrMonitoring ==
    [][ ReadInstalled =>
            /\ lastOp'.op = "tick" =>
                  IF ikbd_reset_counter # 0 \/ JoystickMode = AUTOMODE_JOYSTICK_MONITORING
                  THEN lastOp'.reads = 0
                  ELSE /\ lastOp'.reads >= 1
                       /\ pIKBD_CustomCodeHandler_Read = "Transbeauce2Menu_Read" =>
                             /\ out' # <<>>
                             /\ out'[Len(out')] = IF 57 \in ScanCodeState THEN 128 ELSE 0
            /\ lastOp'.op = "key" =>
                  IF JoystickMode = AUTOMODE_JOYSTICK_MONITORING
                  THEN lastOp'.reads = 0 /\ out' = <<>>
                  ELSE /\ lastOp'.reads = 1
                       /\ out'[1] = lastOp'.arg
                       /\ pIKBD_CustomCodeHandler_Read = "Transbeauce2Menu_Read" =>
                             out' = << lastOp'.arg, IF lastOp'.arg = 57 THEN 128 ELSE 0 >> ]_vars

\* C12 witness: the Transbeauce 2 program runs, a tick came during the reset
\* countdown and the read handler was not called
C12_NoReadDuringCountdown ==
    /\ lastOp.op = "tick" /\ lastOp.reads = 0
    /\ IKBD_ExeMode /\ pIKBD_CustomCodeHandler_Read = "Transbeauce2Menu_Read"
    /\ ikbd_reset_counter > 0
    /\ JoystickMode = AUTOMODE_JOYSTICK

\* C13 as stated: every report opcode emits exactly eight bytes, the first
\* being 0xF6, in every mode state.
C13_EightBytes ==
    lastOp.cmd \in ReportOpcodes => (Len(out) = 8 /\ out[1] = 246)

\* the engine state but for the paused flag
EngineButPause ==
    << MouseMode, JoystickMode, Abs, Mouse, Joy, InputBuffer, Buttons,
       bMouseDisabled, bJoystickDisabled, bDuringResetCriticalTime, bBothMouseAndJoy,
       bMouseEnabledDuringReset, ikbd_reset_counter, Clock, MemoryLoad,
       pIKBD_CustomCodeHandler_Read, pIKBD_CustomCodeHandler_Write, IKBD_ExeMode,
       ScanCodeState, mem, joypad_input_state, mouseb_old, ChaosAD, AudioSculpture >>

\* C14 as stated: a report opcode leaves the whole engine state unchanged,
\* the paused flag included.
C14_NothingChanges ==
    [][ lastOp'.cmd \in ReportOpcodes =>
            (EngineButPause' = EngineButPause /\ PauseOutput' = PauseOutput) ]_vars

\* C14 amended: a report opcode clears the paused flag and leaves the rest of
\* the engine state unchanged.
C14_OnlyPauseCleared ==
    [][ lastOp'.cmd \in ReportOpcodes =>
            (EngineButPause' = EngineButPause /\ PauseOutput' = FALSE) ]_vars

\* C14 witness: a report command ran in absolute pointer mode with maxima set
\* by the host, joystick monitoring on and the Y axis turned
C14_ReportInSetModes ==
    /\ lastOp.cmd \in ReportOpcodes
    /\ MouseMode = AUTOMODE_MOUSEABS /\ Abs.MaxX = 257
    /\ JoystickMode = AUTOMODE_JOYSTICK_MONITORING
    /\ Mouse.YAxis = -1
    /\ ~PauseOutput

\* C15: the same report opcode submitted twice in a row emits the same bytes
\* both times.
C15_SameReportTwice ==
    [][ (lastOp.cmd \in ReportOpcodes /\ lastOp'.op = "submit" /\ lastOp'.cmd = lastOp.cmd)
            => out' = out ]_vars

\* C15 witness: the joystick mode report ran twice in a row in joystick mode Auto
C15_JoystickModeTwice ==
    /\ lastOp.cmd = 148 /\ lastOp.again
    /\ JoystickMode = AUTOMODE_JOYSTICK
    /\ out = <<246, 20, 0, 0, 0, 0, 0, 0>>

C17_EachByteAlone ==
    [][ lastOp'.cmd = 27 =>
            \A i \in 1..6 :
                Clock'[i] = IF PackedBCD(SetClockBytes(lastOp'.arg)[i])
                            THEN SetClockBytes(lastOp'.arg)[i]
                            ELSE Clock[i] ]_vars

\* C17 witness: a Set clock stored the hour 0x30 and, its last byte being
\* 0x0F, left the seconds at the 0x57 set before
C17_HourStoredSecondsKept ==
    /\ lastOp.cmd = 27 /\ lastOp.arg = 15
    /\ Clock[4] = 48 /\ Clock[6] = 87

Opcodes == { KeyboardCommands[i][1] : i \in 1..Len(KeyboardCommands) }

\* the total length of the command with the opcode c
TotalLength(c) ==
    KeyboardCommands[CHOOSE i \in 1..Len(KeyboardCommands) : KeyboardCommands[i][1] = c][2]

\* the engine state but for the paused flag and the input buffer
EngineButFrame ==
    << MouseMode, JoystickMode, Abs, Mouse, Joy, Buttons,
       bMouseDisabled, bJoystickDisabled, bDuringResetCriticalTime, bBothMouseAndJoy,
       bMouseEnabledDuringReset, ikbd_reset_counter, Clock, MemoryLoad,
       pIKBD_CustomCodeHandler_Read, pIKBD_CustomCodeHandler_Write, IKBD_ExeMode,
       ScanCodeState, mem, joypad_input_state, mouseb_old, ChaosAD, AudioSculpture >>

\* C19: in Standard phase with an empty buffer a byte that is no opcode
\* leaves the buffer empty, emits nothing and changes nothing of the engine
\* state.
C19_UnknownByteIgnored ==
    [][ (Standard /\ InputBuffer = <<>> /\ lastOp'.op = "submit"
             /\ lastOp'.arg \notin Opcodes)
            => /\ InputBuffer' = <<>>
               /\ out' = <<>>
               /\ lastOp'.cmd = -1
               /\ EngineButFrame' = EngineButFrame
               /\ PauseOutput' = PauseOutput ]_vars

\* C19 witness: the byte 0xFF came while the output was paused and the
\* pointer was in absolute mode, and the buffer is empty
C19_UnknownWhilePaused ==
    /\ lastOp.op = "submit" /\ lastOp.arg = 255 /\ lastOp.cmd = -1
    /\ InputBuffer = <<>>
    /\ PauseOutput /\ MouseMode = AUTOMODE_MOUSEABS

\* C20: in Standard phase, of a command with total length L the bytes before
\* the L-th are stored, run no handler, emit nothing and change nothing else;
\* the L-th byte runs the handler of the first byte and the buffer is empty
\* afterwards; the handler of 0x09 gets the parameter bytes as they came.
C20_HandlerAtLastByte ==
    [][ (Standard /\ lastOp'.op = "submit")
            => LET buf == Append(InputBuffer, lastOp'.arg)
               IN  buf[1] \in Opcodes =>
                      IF Len(buf) < TotalLength(buf[1])
                      THEN /\ lastOp'.cmd = -1
                           /\ out' = <<>>
                           /\ InputBuffer' = buf
                           /\ EngineButFrame' = EngineButFrame
                           /\ PauseOutput' = PauseOutput
                      ELSE /\ Len(buf) = TotalLength(buf[1])
                           /\ lastOp'.cmd = buf[1]
                           /\ InputBuffer' = <<>>
                           /\ buf[1] = 9 =>
                                 /\ Abs'.MaxX = (buf[2] * 256) + buf[3]
                                 /\ Abs'.MaxY = (buf[4] * 256) + buf[5] ]_vars

\* C20 witness: 0x09 ran with the parameter bytes 0x80 0x12: the maxima hold
\* them, and neither the Reset command nor the pointer-off command ran
C20_OpcodesAsParameters ==
    /\ lastOp.op = "submit" /\ lastOp.cmd = 9 /\ ~lastOp.boot
    /\ Abs.MaxX = 32786
    /\ MouseMode = AUTOMODE_MOUSEABS
    /\ hist.off = {}
    /\ InputBuffer = <<>>

\* the engine state but for the reset counter and the two flags the end of
\* the countdown clears
EngineButCountdown ==
    << MouseMode, JoystickMode, Abs, Mouse, Joy, PauseOutput, InputBuffer, Buttons,
       bMouseDisabled, bJoystickDisabled, bBothMouseAndJoy, Clock, MemoryLoad,
       pIKBD_CustomCodeHandler_Read, pIKBD_CustomCodeHandler_Write, IKBD_ExeMode,
       ScanCodeState, mem, joypad_input_state, mouseb_old, ChaosAD, AudioSculpture >>

\* C21: of the ticks that follow a boot of the ROM, each of the first 39 only
\* decrements the reset counter; the 40th emits the one byte 0xF1, clears the
\* critical-window flags and does nothing else; no later tick runs the
\* countdown again unless a read handler called in that tick boots the ROM.
C21_FortyTicks ==
    [][ lastOp'.op = "tick" =>
            IF hist.ticks < RESET_TICKS - 1
            THEN /\ out' = <<>> /\ lastOp'.reads = 0
                 /\ ikbd_reset_counter' = ikbd_reset_counter - 1
                 /\ ikbd_reset_counter' = RESET_TICKS - (hist.ticks + 1)
                 /\ bDuringResetCriticalTime' /\ bDuringResetCriticalTime
                 /\ bMouseEnabledDuringReset' = bMouseEnabledDuringReset
                 /\ EngineButCountdown' = EngineButCountdown
            ELSE IF hist.ticks = RESET_TICKS - 1
            THEN /\ out' = <<IKBD_ROM_VERSION>> /\ lastOp'.reads = 0
                 /\ ikbd_reset_counter' = 0
                 /\ bDuringResetCriticalTime /\ ~bDuringResetCriticalTime'
                 /\ ~bMouseEnabledDuringReset'
                 /\ EngineButCountdown' = EngineButCountdown
            ELSE /\ ikbd_reset_counter = 0 /\ ~bDuringResetCriticalTime
                 /\ IF lastOp'.boot
                    THEN ikbd_reset_counter' = RESET_TICKS /\ bDuringResetCriticalTime'
                    ELSE ikbd_reset_counter' = 0 /\ ~bDuringResetCriticalTime' ]_vars

\* C21 witness: the 40th tick after a boot came while a program with a read
\* handler ran, and emitted 0xF1
C21_BootCompleteWhileExecuting ==
    /\ lastOp.op = "tick" /\ hist.ticks = RESET_TICKS
    /\ out = <<241>> /\ lastOp.reads = 0
    /\ IKBD_ExeMode /\ pIKBD_CustomCodeHandler_Read # "none"
    /\ ikbd_reset_counter = 0 /\ ~bDuringResetCriticalTime

\* C22: the paused flag is clear at power-on; a Pause output command (0x13)
\* that completes outside the critical window sets it; a Pause inside the
\* window, every other completed command and every boot of the ROM clear it;
\* a call that completes no command and boots nothing leaves it as it was.
C22_PausedByLastCommand ==
    /\ ~PauseOutput
    /\ [][ PauseOutput' =
              IF lastOp'.boot THEN FALSE
              ELSE IF lastOp'.cmd = 19 THEN ~bDuringResetCriticalTime
              ELSE IF lastOp'.cmd # -1 THEN FALSE
              ELSE PauseOutput ]_vars

\* C22 witness: Pause output completed outside the critical window and the
\* flag is set
C22_PausedOutsideWindow ==
    /\ lastOp.cmd = 19 /\ PauseOutput
    /\ ~bDuringResetCriticalTime /\ hist.ticks >= RESET_TICKS

\* the key table after the key event code came
KeyTableAfter(code) ==
    IF code >= 128 THEN ScanCodeState \ {code % 128} ELSE ScanCodeState \cup {code % 128}

\* C23 as stated: in every mode state a key event sets the key's entry of the
\* key table by bit 7 of the code and emits the code.
C23_KeyAlwaysReported ==
    [][ lastOp'.op = "key" =>
            /\ ((lastOp'.arg % 128) \in ScanCodeState') = (lastOp'.arg < 128)
            /\ out' # <<>> /\ out'[1] = lastOp'.arg ]_vars

\* C23 amended: in joystick mode Monitoring a key event changes no entry of
\* the key table and emits nothing; in every other mode state it emits the
\* code first and sets the key's entry by bit 7 of the code, leaving the other
\* entries as they were, unless the read handler called after it boots the
\* ROM, which clears the table.
C23_KeyReportedUnlessMonitoring ==
    [][ lastOp'.op = "key" =>
            IF JoystickMode = AUTOMODE_JOYSTICK_MONITORING
            THEN ScanCodeState' = ScanCodeState /\ out' = <<>>
            ELSE /\ out' # <<>> /\ out'[1] = lastOp'.arg
                 /\ ScanCodeState' = IF lastOp'.boot THEN {} ELSE KeyTableAfter(lastOp'.arg) ]_vars

\* C23 witness: the space key was pressed in joystick mode Monitoring: its
\* entry still says released and nothing was emitted
C23_PressLostInMonitoring ==
    /\ lastOp.op = "key" /\ lastOp.arg = 57
    /\ JoystickMode = AUTOMODE_JOYSTICK_MONITORING
    /\ 57 \notin ScanCodeState /\ out = <<>>

\* the key codes a joypad button can send (make and break), and the four
\* codes of the mouse buttons reported as keys
PadKeyCodes ==
    UNION { {joypad_default_scancode(d, j), joypad_default_scancode(d, j) + 128} :
                d \in 0..1, j \in 0..15 } \ {0, 128}

ButtonKeyCodes == {116, 117, 244, 245}

\* the two bytes of a monitoring packet for the lane masks j
MonitoringPacket(j) ==
    << (IF j[1] >= 128 THEN 2 ELSE 0) + (IF j[2] >= 128 THEN 1 ELSE 0),
       ((j[1] % 16) * 16) + (j[2] % 16) >>

\* a tick that samples the inputs: the reset countdown is over
SamplingTick == lastOp'.op = "tick" /\ ikbd_reset_counter = 0

C25_ButtonsAsKeysOnly ==
    [][ (SamplingTick /\ BitAnd(Mouse.Action, 4) # 0)
        => /\ \A i \in DOMAIN out' : out'[i] \in PadKeyCodes \cup ButtonKeyCodes
           /\ Joy'.PrevJoyData = Joy.PrevJoyData ]_vars

\* the state the C26 scenario starts a tick from, for the tick inputs in:
\* pointer Relative, thresholds 1, Y origin at the top, countdown over, and
\* the buttons of in the same as at the tick before
RelScenario(in) ==
    /\ ikbd_reset_counter = 0
    /\ MouseMode = AUTOMODE_MOUSEREL
    /\ Mouse.XThreshold = 1 /\ Mouse.YThreshold = 1 /\ Mouse.YAxis = 1
    /\ IKBD_ButtonBool(Buttons.bOldLButtonDown) = (BitAnd(in.mb, 2) # 0)
    /\ IKBD_ButtonBool(Buttons.bOldRButtonDown) = (BitAnd(in.mb, 1) # 0)

\* the bytes of the movement in: nothing for (0, 0), else the three bytes
\* header, dx, dy (two's complement)
RelBytesFor(Header, in) ==
    IF in.mx = 0 /\ in.my = 0 THEN <<>> ELSE <<Header, in.mx % 256, in.my % 256>>

\* the change packet of a lane whose mask becomes J[lane + 1]: sent when
\* the mask differs from the one last sent
LaneChange(J, lane) ==
    IF J[lane + 1] # Joy.PrevJoyData[lane + 1] THEN <<254 + lane, J[lane + 1]>> ELSE <<>>

\* the joystick change packets of a tick that samples the lane masks J
JoyChangeBytes(J) ==
    IF JoystickMode = AUTOMODE_JOYSTICK THEN LaneChange(J, 0) \o LaneChange(J, 1) ELSE <<>>

\* the tick with the inputs in, run from the current state
TickFrom(in) == IKBD_SendAutoKeyboardCommands(Cur, in.mx, in.my, in.mb, in.mw, in.joyb)

\* C26 as stated: in the scenario a tick with the movement (dx, dy) emits
\* exactly one pointer packet, [0xF8, dx, dy], after the joystick change
\* packets, and none for (0, 0)
C26_BarePacket ==
    \A in \in RelTicks :
        RelScenario(in)
        => LET S == TickFrom(in)
           IN  S.out = JoyChangeBytes(S.Joy.JoyData) \o RelBytesFor(248, in)

\* C26: in the scenario, and with joystick mode not Monitoring, a tick with
\* the movement (dx, dy) emits exactly one pointer packet, [header, dx, dy],
\* after the joystick change packets; the header is 0xF8 plus 2 while the
\* left button is held and 1 while the right one is; no pointer packet for
\* (0, 0).  In Monitoring the tick emits the monitoring packet and no
\* pointer packet
C26_PacketWithHeldButtons ==
    \A in \in RelTicks :
        RelScenario(in)
        => LET S == TickFrom(in)
           IN  IF JoystickMode = AUTOMODE_JOYSTICK_MONITORING
               THEN S.out = MonitoringPacket(S.Joy.JoyData)
               ELSE S.out = JoyChangeBytes(S.Joy.JoyData)
                            \o RelBytesFor(248 + (IF BitAnd(in.mb, 2) # 0 THEN 2 ELSE 0)
                                               + (IF BitAnd(in.mb, 1) # 0 THEN 1 ELSE 0), in)

\* the left button is held from the tick before, and the movement (5, 0)
\* is reported with it
C26_MoveWithButtonHeld ==
    /\ lastOp.op = "tick"
    /\ MouseMode = AUTOMODE_MOUSEREL
    /\ Buttons.bOldLButtonDown # 0
    /\ out = <<250, 5, 0>>

\* the joystick change packets in the bytes s of a tick: a header 0xFE or
\* 0xFF with the byte after it; the three bytes of a pointer packet are
\* stepped over
RECURSIVE ChangePacketsIn(_)
ChangePacketsIn(s) ==
    IF s = <<>> THEN <<>>
    ELSE IF s[1] >= 254 THEN <<s[1], s[2]>> \o ChangePacketsIn(SubSeq(s, 3, Len(s)))
    ELSE IF s[1] >= 248 THEN ChangePacketsIn(SubSeq(s, 4, Len(s)))
    ELSE ChangePacketsIn(Tail(s))

\* the C27 scenario: a sampling tick in joystick mode Auto in which lane 1
\* goes from 0x00 to 0x81 and lane 0 stays as last sent
FireAndUp ==
    /\ SamplingTick
    /\ JoystickMode = AUTOMODE_JOYSTICK
    /\ Joy.PrevJoyData[2] = 0 /\ Joy'.JoyData[2] = 129
    /\ Joy'.JoyData[1] = Joy.PrevJoyData[1]

\* C27 as stated: the scenario's tick emits [0xFF, 0x81] and nothing else
C27_OnlyTheLanePacket == [][ FireAndUp => out' = <<255, 129>> ]_vars

\* C27: a sampling tick in joystick mode Auto emits a lane's change packet
\* exactly when the lane's mask differs from the one last sent, lane 0
\* first, and the masks sent become the last-sent ones.  The scenario's
\* tick emits [0xFF, 0x81] as its only packet when the pointer is off; in
\* pointer mode Relative the fire button of lane 1 is the right mouse
\* button as well, and when that button was up at the tick before, the
\* tick emits [0xFF, 0x81] and then a pointer packet with bit 0 of the
\* header set.  In both modes only key codes of joypad and mouse buttons
\* can come before
C27_LanePacketAndButton ==
    [][ (SamplingTick /\ JoystickMode = AUTOMODE_JOYSTICK)
        => /\ ChangePacketsIn(out') = JoyChangeBytes(Joy'.JoyData)
           /\ Joy'.PrevJoyData = Joy'.JoyData
           /\ (FireAndUp /\ MouseMode = AUTOMODE_OFF)
              => LET n == Len(out')
                 IN  /\ n >= 2
                     /\ SubSeq(out', n - 1, n) = <<255, 129>>
                     /\ \A i \in 1..(n - 2) : out'[i] \in PadKeyCodes \cup ButtonKeyCodes
           /\ (FireAndUp /\ MouseMode = AUTOMODE_MOUSEREL /\ Buttons.bOldRButtonDown = 0)
              => LET n == Len(out')
                 IN  /\ n >= 5
                     /\ SubSeq(out', n - 4, n - 3) = <<255, 129>>
                     /\ out'[n - 2] \in {249, 251}
                     /\ SubSeq(out', n - 1, n) = <<0, 0>>
                     /\ \A i \in 1..(n - 5) : out'[i] \in PadKeyCodes \cup ButtonKeyCodes ]_vars

\* the first sampling tick after a reset, with joypad 1 button 2 down
C27_FireInRelativeMode ==
    /\ lastOp.op = "tick"
    /\ hist.ticks = RESET_TICKS + 1
    /\ JoystickMode = AUTOMODE_JOYSTICK
    /\ MouseMode = AUTOMODE_MOUSEREL
    /\ out = <<255, 129, 249, 0, 0>>

\* a cell inside one of the nine tables: index 0..15 of a key-code or
\* joystick-bit map, index 0..127 of the default key-code table
CellInTable(c) ==
    \/ c[1][1] \in {"scancode", "joystick"} /\ c[2] \in 0..15
    \/ c[1][1] = "v4sa" /\ c[2] \in 0..127

\* C28: a data byte of Load Memory goes to a cell inside one of the nine
\* tables, or its address is unmapped and the tables stay as they are:
\* the resolver never gives a cell beyond a table's end
C28_CellsInsideTables ==
    [][ (lastOp'.op = "submit" /\ MemoryLoad.Left # 0)
        => LET c == resolve_address(MemoryLoad.Addr)
           IN  IF c = <<>> THEN mem' = mem ELSE CellInTable(CellByte(c)) ]_vars

\* The reference checksum.  A 32-bit register is the set of the positions
\* 0..31 of its 1 bits, that is a polynomial over GF(2); the generator
\* 0x04C11DB7 is x^26 + x^23 + x^22 + x^16 + x^12 + x^11 + x^10 + x^8 + x^7
\* + x^5 + x^4 + x^2 + x + 1
RefPoly == {26, 23, 22, 16, 12, 11, 10, 8, 7, 5, 4, 2, 1, 0}

\* one message bit m: the register is shifted left by one modulo 2^32, and
\* the generator is XORed in exactly when the top bit differed from m
RefBit(R, m) ==
    LET shifted == { e + 1 : e \in R \ {31} }
    IN  IF (31 \in R) # m THEN (shifted \ RefPoly) \cup (RefPoly \ shifted) ELSE shifted

\* the eight bits of the byte c, most significant first
RECURSIVE RefByte(_, _, _)
RefByte(R, c, k) ==
    IF k < 0 THEN R ELSE RefByte(RefBit(R, (c \div (2 ^ k)) % 2 = 1), c, k - 1)

\* the register of a uint32_t held as <<high 16 bits, low 16 bits>>
RegisterOf(crc) ==
    { e \in 0..15 : (crc[2] \div (2 ^ e)) % 2 = 1 }
    \cup { e + 16 : e \in { x \in 0..15 : (crc[1] \div (2 ^ x)) % 2 = 1 } }

NonZeroLanes(J) ==
    (IF J[1] # 0 THEN <<254, J[1]>> ELSE <<>>) \o (IF J[2] # 0 THEN <<255, J[2]>> ELSE <<>>)

\* C30: 0x14 always sets joystick mode Auto.  When it comes inside the
\* critical window and 0x08 or 0x12 came earlier in that window, pointer
\* mode becomes Relative and the 'both' flag is set.  The command forgets
\* the last-sent lane masks, samples the joysticks and emits a change
\* packet for each lane whose mask is not zero; those masks are then the
\* last-sent ones
C30_JoystickAuto ==
    [][ lastOp'.cmd = 20
        => /\ JoystickMode' = AUTOMODE_JOYSTICK
           /\ (bDuringResetCriticalTime /\ (hist.rel \/ 18 \in hist.off))
              => (MouseMode' = AUTOMODE_MOUSEREL /\ bBothMouseAndJoy')
           /\ ChangePacketsIn(out') = NonZeroLanes(Joy'.JoyData)
           /\ Joy'.PrevJoyData = Joy'.JoyData ]_vars

\* 0x08, 0x0B 2 2 and then 0x14 inside the window, with both fire buttons
\* down: the pointer stays on and both lanes are reported
C30_BarbarianSequence ==
    /\ lastOp.cmd = 20
    /\ bDuringResetCriticalTime
    /\ Mouse.XThreshold = 2
    /\ 18 \notin hist.off
    /\ MouseMode = AUTOMODE_MOUSEREL /\ bBothMouseAndJoy
    /\ out = <<254, 128, 255, 129>>

\* the 4-bit mask of the current buttons: right down 0x01 / up 0x02, left
\* down 0x04 / up 0x08
ButtonMask ==
    (IF Buttons.bRButtonDown # 0 THEN 1 ELSE 2) + (IF Buttons.bLButtonDown # 0 THEN 4 ELSE 8)

\* the packet of 0x0D: 0xF7, new & ~previous, the position; new is stored
AskedStep ==
    lastOp'.cmd = 13
    => /\ out' = << 247, BitClear(ButtonMask, Abs.PrevReadAbsMouseButtons),
                    Abs.X \div 256, Abs.X % 256, Abs.Y \div 256, Abs.Y % 256 >>
       /\ Abs'.PrevReadAbsMouseButtons = ButtonMask

\* the buttons are as they were at the 0x0D before, and neither a button
\* change nor 0x07 nor a reset came in between
SameAsAsked == Len(hist.asked) = 2 /\ hist.asked = << Buttons.bLButtonDown # 0,
                                                      Buttons.bRButtonDown # 0 >>

C32_PhaseConsistent ==
    /\ IKBD_ExeMode => pIKBD_CustomCodeHandler_Write # "none"
    /\ pIKBD_CustomCodeHandler_Read # "none" => IKBD_ExeMode
    /\ ~(MemoryLoad.Left > 0 /\ IKBD_ExeMode)

\* a matched main program runs: both handlers installed, no load pending
C32_Executing ==
    /\ IKBD_ExeMode
    /\ pIKBD_CustomCodeHandler_Read # "none"
    /\ pIKBD_CustomCodeHandler_Write \notin {"none", "CommonBoot"}
    /\ MemoryLoad.Left = 0

\* the movements and buttons a tick is tried with: still, below and at the
\* 8-bit limits, beyond them, and the ends of the 16-bit range
MoveProbes ==
    { [StillTick EXCEPT !.mx = x, !.my = y, !.mb = b] :
          x \in {0, 3, 128, 200, 256, -300, 32767}, y \in {0, -129, 200, -32768},
          b \in 0..3 }

\* what a tick emits after its joystick change packets
PointerPart(S) == SubSeq(S.out, Len(JoyChangeBytes(S.Joy.JoyData)) + 1, Len(S.out))

\* the loop test of IKBD_SendRelMousePacket fails for the delta d on an axis
\* of threshold T
QuietAxis(d, T) ==
    LET b == ToInt8(d) IN ~(b < 0 /\ b <= -T) /\ ~(b > 0 /\ b >= T)

Magnitude(d) == IF d < 0 THEN -d ELSE d

RECURSIVE SumAt(_, _)
SumAt(p, k) ==
    IF Len(p) < 3 THEN 0 ELSE ToInt8(p[k]) + SumAt(SubSeq(p, 4, Len(p)), k)

\* every k-th byte of the 3-byte packets of p, read as signed, has the sign
\* of d or is 0
SignsAt(p, k, d) ==
    \A i \in 1..Len(p) : (i % 3 = k % 3) => ToInt8(p[i]) * (IF d < 0 THEN -1 ELSE 1) >= 0

\* C34 as stated: in Relative mode with thresholds 1 a tick whose delta
\* exceeds 127 in magnitude on an axis emits packets whose signed X bytes sum
\* to dx and whose signed Y bytes, times the Y-axis sign, sum to dy, each
\* byte with the sign of the movement
C34_FarMoveInSeveralPackets ==
    \A in \in MoveProbes :
        ( /\ ikbd_reset_counter = 0 /\ MouseMode = AUTOMODE_MOUSEREL
          /\ Mouse.XThreshold = 1 /\ Mouse.YThreshold = 1
          /\ (Magnitude(in.mx) > 127 \/ Magnitude(in.my) > 127) )
        => LET p == PointerPart(TickFrom(in))
           IN  /\ SumAt(p, 2) = in.mx
               /\ SumAt(p, 3) * Mouse.YAxis = in.my
               /\ SignsAt(p, 2, in.mx)
               /\ SignsAt(p, 3, in.my * Mouse.YAxis)

\* the number of bytes of s that are in codes
RECURSIVE CountIn(_, _)
CountIn(s, codes) ==
    IF s = <<>> THEN 0
    ELSE (IF Head(s) \in codes THEN 1 ELSE 0) + CountIn(Tail(s), codes)

\* the press/release pairs one axis gets for the sampled delta d and the
\* step size step: one per pass of the loop while a whole step is left
PairsFor(d, step) ==
    IF d = 0 THEN 0
    ELSE IF step = 0 \/ Magnitude(d) \div step >= 10 THEN 10
    ELSE Magnitude(d) \div step

\* C35: in CursorKeys mode one tick emits at most 10 press/release
\* cursor-code pairs per axis, every press followed by its release, and at
\* most 10 button codes, for every sampled delta and every step size, step
\* size 0 and a delta smaller than the step size included
C35_TenPairsPerAxis ==
    \A in \in { m \in MoveProbes : /\ m.mx \in {0, 3, -300, 32767}
                                   /\ m.my \in {0, -129, 200}
                                   /\ m.mb \in {0, 3} } :
        (ikbd_reset_counter = 0 /\ MouseMode = AUTOMODE_MOUSECURSOR)
        => \A p \in {PointerPart(TickFrom(in))} :
           \A nx \in {CountIn(p, {75, 77})}, ny \in {CountIn(p, {72, 80})} :
               /\ nx <= 10 /\ ny <= 10
               /\ nx = PairsFor(in.mx, Mouse.KeyCodeDeltaX)
               /\ ny = PairsFor(in.my, Mouse.KeyCodeDeltaY)
               /\ \A i \in 1..Len(p) :
                      p[i] \in {72, 75, 77, 80} => i < Len(p) /\ p[i + 1] = p[i] + 128
               /\ Len(p) <= (2 * nx) + (2 * ny) + 2

\* a tick in CursorKeys mode with step sizes 1 sampled (-300, 200) and sent
\* ten pairs on each axis
C35_TenPairsSent ==
    /\ lastOp.op = "tick" /\ ikbd_reset_counter = 0
    /\ MouseMode = AUTOMODE_MOUSECURSOR
    /\ Mouse.KeyCodeDeltaX = 1 /\ Mouse.KeyCodeDeltaY = 1
    /\ Mouse.DeltaX = -290 /\ Mouse.DeltaY = 190
    /\ CountIn(out, {75}) = 10 /\ CountIn(out, {80}) = 10

\* C36: 0x0E stores the position it is given and 0x09 the maxima it is
\* given, neither clips the position; every tick past the reset countdown
\* leaves 0 <= X <= MaxX and 0 <= Y <= MaxY, whatever the position, the
\* delta, the scales and the Y axis were
C36_ClippedByTheNextTick ==
    [][ /\ lastOp'.cmd = 14
           => /\ Abs'.X = (InputBuffer[3] * 256) + InputBuffer[4]
              /\ Abs'.Y = (InputBuffer[5] * 256) + lastOp'.arg
              /\ Abs'.MaxX = Abs.MaxX /\ Abs'.MaxY = Abs.MaxY
        /\ lastOp'.cmd = 9
           => /\ Abs'.MaxX = (InputBuffer[2] * 256) + InputBuffer[3]
              /\ Abs'.MaxY = (InputBuffer[4] * 256) + lastOp'.arg
              /\ Abs'.X = Abs.X /\ Abs'.Y = Abs.Y
        /\ SamplingTick
           => /\ 0 <= Abs'.X /\ Abs'.X <= Abs'.MaxX
              /\ 0 <= Abs'.Y /\ Abs'.Y <= Abs'.MaxY
      ]_vars

\* a still tick with scales 3 and the Y axis reversed found the position
\* (256, 256) stored by 0x0E and clipped it to the maxima (100, 100): no
\* movement to the right is ever sampled, so X = 100 comes from the clip
C36_StoredPositionClipped ==
    /\ lastOp.op = "tick" /\ ikbd_reset_counter = 0 /\ ~lastOp.boot
    /\ Mouse.DeltaX = 0 /\ Mouse.DeltaY = 0
    /\ Mouse.XScale = 3 /\ Mouse.YScale = 3 /\ Mouse.YAxis = -1
    /\ Abs.MaxX = 100 /\ Abs.X = 100
    /\ Abs.MaxY = 100 /\ Abs.Y = 100

\* the call made a program the steady-state program: its write handler was
\* not installed before the call and is after it
RunStarts(write) ==
    /\ pIKBD_CustomCodeHandler_Write # write
    /\ pIKBD_CustomCodeHandler_Write' = write /\ IKBD_ExeMode'

\* the last call was the upload that started the running program
JustStarted(write) ==
    /\ IKBD_ExeMode /\ pIKBD_CustomCodeHandler_Write = write
    /\ lastOp.op = "submit" /\ lastOp.was # write

\* C37 as stated: every run of Audio Sculpture, a later one too, needs the
\* magic byte and two calls of the read handler before it leaves Executing:
\* a run starts with no magic byte seen and no read counted, and the tick
\* that follows the upload does not end it
C37_EveryRunNeedsMagicAndTwoReads ==
    [][ /\ RunStarts("AudioSculpture_Write")
           => AudioSculpture' = [ASmagic |-> FALSE, ReadCount |-> 0]
        /\ (JustStarted("AudioSculpture_Write") /\ lastOp'.op = "tick")
           => IKBD_ExeMode' ]_vars

\* C38 as stated: each time Chaos A.D. becomes the steady-state program,
\* after a reset too, its protocol starts over: nothing swallowed and
\* nothing decoded yet, key index 0, and the first call of the read handler,
\* in the tick that follows the upload, emits 0xFE
C38_EveryRunStartsOver ==
    [][ /\ RunStarts("ChaosAD_Write")
           => ChaosAD' = [FirstCall |-> TRUE, IgnoreNb |-> 8, Index |-> 0, Count |-> 0]
        /\ (JustStarted("ChaosAD_Write") /\ lastOp'.op = "tick")
           => out' = <<254>> ]_vars

\* C39: the critical-window flag is set exactly while the reset countdown is
\* not 0; every boot of the ROM leaves the countdown at 40 with the flag set
C39_WindowIffCountdown ==
    /\ bDuringResetCriticalTime <=> ikbd_reset_counter # 0
    /\ lastOp.boot => (ikbd_reset_counter = RESET_TICKS /\ bDuringResetCriticalTime)

\* the tick in which the countdown reached 0 cleared the flag, after
\* commands were received inside the window
C39_WindowClosedWithCountdown ==
    /\ lastOp.op = "tick" /\ out = <<IKBD_ROM_VERSION>>
    /\ ikbd_reset_counter = 0 /\ ~bDuringResetCriticalTime
    /\ hist.off # {}

\* the first bytes of the pointer packets: the relative headers, the
\* absolute header and the cursor key codes
PointerBytes == 247..251 \cup {72, 75, 77, 80, 200, 203, 205, 208}

\* C40: 0x14 outside the critical window, or inside it when neither 0x08 nor
\* 0x12 came since the boot, leaves pointer mode Off whatever it was; while
\* pointer mode is Off a tick emits no pointer packet and keeps it Off, and
\* the mode leaves Off only by a boot of the ROM, by 0x08, 0x09 or 0x0A, or
\* inside the window by 0x12 itself or by 0x14 or 0x1A after 0x12
C40_PointerOffAfterJoystickAuto ==
    [][ /\ (lastOp'.cmd = 20
             /\ (~bDuringResetCriticalTime \/ (~hist.rel /\ 18 \notin hist.off)))
           => MouseMode' = AUTOMODE_OFF
        /\ (MouseMode = AUTOMODE_OFF /\ lastOp'.op = "tick")
           => /\ MouseMode' = AUTOMODE_OFF
              /\ \A i \in 1..Len(out') : out'[i] \notin PointerBytes
        /\ (MouseMode = AUTOMODE_OFF /\ MouseMode' # AUTOMODE_OFF)
           => \/ lastOp'.boot
              \/ lastOp'.cmd \in {8, 9, 10}
              \/ /\ lastOp'.cmd \in {18, 20, 26}
                 /\ bDuringResetCriticalTime /\ 18 \in hist'.off ]_vars

\* the host had set the absolute maxima with 0x09; pointer mode is Off and
\* joystick mode Auto with neither 0x12 nor 0x1A since the boot and the
\* 'both' flag clear, and a tick past the countdown sampled a movement and
\* emitted nothing
C40_SilentAfterJoystickAuto ==
    /\ lastOp.op = "tick" /\ ikbd_reset_counter = 0
    /\ MouseMode = AUTOMODE_OFF /\ JoystickMode = AUTOMODE_JOYSTICK
    /\ Mouse.KeyCodeDeltaX = 1 /\ Abs.MaxX = 257
    /\ Mouse.DeltaX = -5 /\ out = <<>>
    /\ hist.off = {} /\ ~bBothMouseAndJoy

=============================================================================
